---- MODULE Spec2Model ----
(***************************************************************************)
(* A model of the ingestion pipeline of elpardal/ingestor: the listener    *)
(* that enqueues TelegramFile events, the worker loop of main.py, the      *)
(* per-file state machine IngestionService.process_file (one step per      *)
(* suspension point of the coroutine), the three tables behind             *)
(* DatabaseAdapter and the directories behind StorageAdapter.              *)
(* The components the pipeline calls are modelled one call at a time, each *)
(* by a specification of its own over the frame of the call:               *)
(* _safe_extract, validate_safe_path, the listener's handler with its      *)
(* bounded put, download_file, persist_file and the teardown of main().    *)
(***************************************************************************)
EXTENDS Integers, Sequences, FiniteSets, TLC

VARIABLES
    worker_count,   \* Settings.worker_count of the running process
    queue,          \* job_queue of main(): FileRefs waiting for a worker
    events,         \* number of NewMessage events the listener has handled
    task,           \* per worker task: where it is suspended, and its locals
    semaphore,      \* free permits of IngestionService.semaphore
    running_jobs,   \* IngestionService._running_jobs
    processing_jobs,        \* table processing_jobs (rows in insertion order)
    processed_files,        \* table processed_files
    extracted_indicators,   \* table extracted_indicators
    tmp,            \* <base>/.tmp: scratch directory -> (file name -> bytes)
    store,          \* canonical store: final path -> bytes of the file
    stats,          \* HealthCheckServer._stats
    next_job,       \* source of fresh job ids (uuid4)
    faults,         \* number of environment failures injected so far
    restarts,       \* number of times the process has been started again
    hist,           \* per job id: how its process_file call ended, and where
    extract,        \* frame of one _safe_extract call and what it has written
    safe_path,      \* frame of one validate_safe_path call
    putters,        \* handlers suspended in wait_for(output_queue.put(file))
    dropped,        \* FileRefs whose put timed out
    download,       \* frame of one TelegramAdapter.download_file call
    persist,        \* frame of one StorageAdapter.persist_file call
    teardown,       \* main() from the cancellation of the workers on
    call            \* frame of one call of a repository or storage operation

mainVars == <<worker_count, queue, events, task, semaphore, running_jobs,
              processing_jobs, processed_files, extracted_indicators, tmp, store,
              stats, next_job, faults, restarts, hist>>

unitVars == <<extract, safe_path, putters, dropped, download, persist, teardown, call>>

vars == <<mainVars, unitVars>>

-----------------------------------------------------------------------------
(* Bounds of the exploration *)

MaxFaults == 1
MaxRestarts == 1

\* The worker counts explored (Settings.worker_count) and the worker tasks.
WorkerCounts == {1, 2}
Workers == {1, 2}
ActiveWorkers == {w \in Workers : w <= worker_count}

\* What one run may spend: every message, failure and restart counts one, and
\* so does every worker after the first.
Budget == 3
Spent == events + faults + restarts + (worker_count - 1)

-----------------------------------------------------------------------------
(* Program constants *)

QueueFactor == 3
max_files == 1000
\* 10 GiB, counted in MiB
max_total_size == 10240
ErrorLimit == 200
NameLimit == 255

QUEUED == "queued"
PROCESSING == "processing"
COMPLETED == "completed"
FAILED == "failed"
JobStatus == {QUEUED, PROCESSING, COMPLETED, FAILED}

NULL == "NULL"
NoDir == [job |-> 0, use |-> "none"]
NoJob == 0

Min(a, b) == IF a < b THEN a ELSE b

-----------------------------------------------------------------------------
(* Strings are sequences of one-character strings. *)

Str_a_zip == <<"a", ".", "z", "i", "p">>
Str_b_zip == <<"b", ".", "z", "i", "p">>
Str_x_zip == <<"x", ".", "z", "i", "p">>

\* The characters of the model that \w matches: in a str pattern \w is the
\* Unicode word class, which holds the accented letters too.
WordChars == {"a", "b", "x", "z", "i", "p", "r", "u", "n", "m", "e", "d",
              "f", "l", "_", "0", "1", "2", "é"}

Unnamed == <<"u", "n", "n", "a", "m", "e", "d", "_", "f", "i", "l", "e">>

\* re.sub(r"[^\w\-. ]+", "_", s): every maximal run of other characters
\* becomes one underscore, put where the run begins. inRun: the character
\* before s was replaced.
ReSub(s, inRun) ==
    LET Kept(c) == c \in WordChars \cup {"-", ".", " "}
        BeginsRun(i) == IF i = 1 THEN ~inRun ELSE Kept(s[i - 1])
        marks == [i \in 1..Len(s) |->
                    IF Kept(s[i]) THEN s[i]
                    ELSE IF BeginsRun(i) THEN "_" ELSE ""]
    IN SelectSeq(marks, LAMBDA c : c # "")

RECURSIVE LStrip(_, _)
LStrip(s, chars) ==
    IF s # <<>> /\ Head(s) \in chars THEN LStrip(Tail(s), chars) ELSE s

RECURSIVE RStrip(_, _)
RStrip(s, chars) ==
    IF s # <<>> /\ s[Len(s)] \in chars
    THEN RStrip(SubSeq(s, 1, Len(s) - 1), chars) ELSE s

Strip(s, chars) == RStrip(LStrip(s, chars), chars)

Whitespace == {" "}

_sanitize_filename(filename) ==
    LET sanitized == ReSub(filename, FALSE)
        named == IF sanitized = <<>> \/ Strip(sanitized, {".", " "}) = <<>>
                 THEN Unnamed ELSE sanitized
        stripped == Strip(named, Whitespace)
    IN SubSeq(stripped, 1, Min(Len(stripped), NameLimit))

RECURSIVE LastDot(_)
\* index of the last "." of s, 0 when there is none
LastDot(s) ==
    IF s = <<>> THEN 0
    ELSE IF s[Len(s)] = "." THEN Len(s) ELSE LastDot(SubSeq(s, 1, Len(s) - 1))

\* Path.suffix of a file name (lower-cased by the caller; the names of the
\* model are lower case already)
Suffix(name) ==
    LET d == LastDot(name)
    IN IF d <= 1 \/ d = Len(name) THEN <<>> ELSE SubSeq(name, d, Len(name))

-----------------------------------------------------------------------------
(* Paths: pathlib over a file system without symbolic links *)

\* The path segments the inputs are built from, as strings of characters
Seg_up == <<".", ".">>
Seg_s == <<"s">>
Seg_sx == <<"s", "x">>
Seg_d == <<"d">>
Seg_f == <<"f">>
Segments == {Seg_up, Seg_s, Seg_sx, Seg_d, Seg_f}

\* The longest user path explored, in segments
MaxSegments == 3

SegmentLists == UNION {[1..n -> Segments] : n \in 0..MaxSegments}

RECURSIVE JoinText(_)
\* "/".join(segs)
JoinText(segs) ==
    IF segs = << >> THEN << >>
    ELSE IF Len(segs) = 1 THEN segs[1]
    ELSE segs[1] \o <<"/">> \o JoinText(Tail(segs))

\* The text of a user path: its segments joined, with a leading "/" when it
\* is absolute
PathText(segs, absolute) ==
    (IF absolute THEN <<"/">> ELSE << >>) \o JoinText(segs)

UserPaths == {PathText(segs, a) : segs \in SegmentLists, a \in BOOLEAN}

RECURSIVE SplitPath(_, _)
\* PurePath parsing: the parts of a path text between "/", without the empty
\* parts and the "." parts. cur: the part being read.
SplitPath(text, cur) ==
    LET part == IF cur = << >> \/ cur = <<".">> THEN << >> ELSE <<cur>>
    IN IF text = << >> THEN part
       ELSE IF Head(text) = "/" THEN part \o SplitPath(Tail(text), << >>)
       ELSE SplitPath(Tail(text), Append(cur, Head(text)))

IsAbsolute(text) == text # << >> /\ Head(text) = "/"

\* base / user: an absolute right operand replaces the left one
JoinPath(base, text) ==
    IF IsAbsolute(text) THEN SplitPath(text, << >>)
    ELSE base \o SplitPath(text, << >>)

RECURSIVE Resolve(_, _)
\* Path.resolve() of an absolute path: ".." drops the part before it, and
\* stays at the root when there is none. done: the parts resolved so far.
Resolve(parts, done) ==
    IF parts = << >> THEN done
    ELSE IF Head(parts) = Seg_up
         THEN Resolve(Tail(parts),
                      IF done = << >> THEN << >> ELSE SubSeq(done, 1, Len(done) - 1))
         ELSE Resolve(Tail(parts), Append(done, Head(parts)))

RECURSIVE Str(_)
\* str(path) of an absolute path given by its parts
Str(parts) ==
    IF parts = << >> THEN <<"/">>
    ELSE IF Len(parts) = 1 THEN <<"/">> \o parts[1]
    ELSE <<"/">> \o parts[1] \o Str(Tail(parts))

\* text.startswith(prefix)
StartsWith(text, prefix) ==
    Len(prefix) <= Len(text) /\ SubSeq(text, 1, Len(prefix)) = prefix

\* path is dir or has dir among its ancestors, part by part
IsWithin(path, dir) ==
    Len(dir) <= Len(path) /\ SubSeq(path, 1, Len(dir)) = dir

-----------------------------------------------------------------------------
(* The remote documents *)

\* TelegramFile: the remote key, the channel and the original file name.
F1 == [telegram_file_id |-> "100_1_11", channel_id |-> 100, filename |-> Str_a_zip]
F2 == [telegram_file_id |-> "100_2_22", channel_id |-> 100, filename |-> Str_b_zip]
F3 == [telegram_file_id |-> "100_3_33", channel_id |-> 100, filename |-> Str_x_zip]
Files == {F1, F2, F3}
NoFile == [telegram_file_id |-> "none", channel_id |-> 0, filename |-> <<>>]

\* The bytes behind each remote key: F1 and F2 carry the same bytes.
RemoteBytes(telegram_file_id) ==
    CASE telegram_file_id = "100_1_11" -> "A"
      [] telegram_file_id = "100_2_22" -> "A"
      [] telegram_file_id = "100_3_33" -> "B"

\* What the archive with these bytes holds: the number of names it lists, the
\* sum of the declared sizes (MiB), the member names as the archive spells
\* them (one plain name stands for all), the members an extraction writes (of the
\* 2000 of B, one stands for all), and the matches of its .txt members in scan
\* order (the URL-with-protocol step, the URL-without-protocol step and the
\* bare-domain step each report the host of line 1).
Archive(bytes) ==
    CASE bytes = "A" ->
            [namelist |-> 1, total_size |-> 1, infolist |-> <<Seg_f>>,
             members |-> {"hits.txt"},
             matches |-> << [indicator_type |-> "domain", value |-> "api.watched.org",
                             source_relative_path |-> "hits.txt", source_line |-> 1],
                            [indicator_type |-> "domain", value |-> "api.watched.org",
                             source_relative_path |-> "hits.txt", source_line |-> 1],
                            [indicator_type |-> "domain", value |-> "api.watched.org",
                             source_relative_path |-> "hits.txt", source_line |-> 1],
                            [indicator_type |-> "ipv4", value |-> "10.0.0.5",
                             source_relative_path |-> "hits.txt", source_line |-> 2] >>]
      [] bytes = "B" ->
            [namelist |-> 2000, total_size |-> 1, infolist |-> <<Seg_f>>,
             members |-> {"0.txt"},
             matches |-> << >>]

\* compute_blake2b_from_path: the digest is a function of the bytes alone.
\* The state holds the digest's name; HexDigest gives its 64 hex characters.
compute_blake2b_from_path(bytes) ==
    CASE bytes = "A" -> "hA"
      [] bytes = "B" -> "hB"

\* hashlib.blake2b(digest_size=32): hexdigest() gives two characters a byte
digest_size == 32

HexDigest(h) ==
    CASE h = "hA" -> [i \in 1..(2 * digest_size) |->
                         IF i = 1 THEN "a" ELSE IF i = 3 THEN "c" ELSE "0"]
      [] h = "hB" -> [i \in 1..(2 * digest_size) |->
                         IF i = 1 THEN "b" ELSE IF i = 3 THEN "d" ELSE "1"]

-----------------------------------------------------------------------------
(* DatabaseAdapter: the statements, as functions of the table *)

NoError == [type |-> NULL, text |-> "", len |-> 0]

\* Time is logical and kept per row: a row is written first at FirstTime, and
\* NOW() in a later statement is later than the time t the row holds.
FirstTime == 0
NOW(t) == t + 1

exists_by_telegram_id(rows, telegram_file_id) ==
    \E i \in DOMAIN rows : rows[i].telegram_file_id = telegram_file_id

exists_by_hash(rows, h) ==
    \E i \in DOMAIN rows : rows[i].file_hash = h

\* The same INSERT with DO UPDATE SET every column to the offered value
record_processed_file_replace(rows, f, h, storage_path) ==
    IF \E i \in DOMAIN rows : rows[i].telegram_file_id = f.telegram_file_id
    THEN [i \in DOMAIN rows |->
            IF rows[i].telegram_file_id = f.telegram_file_id
            THEN [rows[i] EXCEPT !.filename = f.filename,
                                 !.file_hash = h,
                                 !.storage_path = storage_path,
                                 !.last_seen_at = NOW(@)]
            ELSE rows[i]]
    ELSE Append(rows, [telegram_file_id |-> f.telegram_file_id,
                       channel_id |-> f.channel_id,
                       filename |-> f.filename,
                       file_hash |-> h,
                       storage_path |-> storage_path,
                       first_seen_at |-> FirstTime,
                       last_seen_at |-> FirstTime])

\* INSERT ... ON CONFLICT (telegram_file_id) DO UPDATE SET last_seen_at = NOW()
record_processed_file(rows, f, h, storage_path) ==
    IF \E i \in DOMAIN rows : rows[i].telegram_file_id = f.telegram_file_id
    THEN [i \in DOMAIN rows |->
            IF rows[i].telegram_file_id = f.telegram_file_id
            THEN [rows[i] EXCEPT !.last_seen_at = NOW(@)] ELSE rows[i]]
    ELSE Append(rows, [telegram_file_id |-> f.telegram_file_id,
                       channel_id |-> f.channel_id,
                       filename |-> f.filename,
                       file_hash |-> h,
                       storage_path |-> storage_path,
                       first_seen_at |-> FirstTime,
                       last_seen_at |-> FirstTime])

\* INSERT ... ON CONFLICT (job_id) DO NOTHING
log_job(rows, job) ==
    IF \E i \in DOMAIN rows : rows[i].job_id = job.job_id
    THEN rows
    ELSE Append(rows, [job_id |-> job.job_id,
                       telegram_file_id |-> job.file.telegram_file_id,
                       status |-> job.status,
                       created_at |-> job.created_at,
                       updated_at |-> job.created_at,
                       error |-> NoError,
                       file_hash |-> NULL])

\* The same UPDATE with file_hash = $3
update_job_status_overwrite(rows, id, status, error, h) ==
    [i \in DOMAIN rows |->
        IF rows[i].job_id = id
        THEN [rows[i] EXCEPT !.status = status,
                             !.error = error,
                             !.updated_at = NOW(@),
                             !.file_hash = h]
        ELSE rows[i]]

\* UPDATE processing_jobs SET status = $1, error = $2, updated_at = NOW(),
\*        file_hash = COALESCE($3, file_hash) WHERE job_id = $4
update_job_status(rows, id, status, error, h) ==
    [i \in DOMAIN rows |->
        IF rows[i].job_id = id
        THEN [rows[i] EXCEPT !.status = status,
                             !.error = error,
                             !.updated_at = NOW(@),
                             !.file_hash = IF h # NULL THEN h ELSE @]
        ELSE rows[i]]

SameIdentity(row, ind) ==
    /\ row.indicator_type = ind.indicator_type
    /\ row.value = ind.value
    /\ row.source_file_hash = ind.source_file_hash
    /\ row.source_line = ind.source_line

\* The same INSERT without its ON CONFLICT clause
persist_indicator_plain_insert(rows, ind) ==
    Append(rows, [indicator_type |-> ind.indicator_type,
                  value |-> ind.value,
                  source_file_hash |-> ind.source_file_hash,
                  source_relative_path |-> ind.source_relative_path,
                  source_line |-> ind.source_line,
                  channel_id |-> ind.channel_id,
                  first_seen_at |-> FirstTime,
                  last_seen_at |-> FirstTime])

\* INSERT ... ON CONFLICT (indicator_type, value, source_file_hash, source_line)
\* DO UPDATE SET last_seen_at = NOW()
persist_indicator(rows, ind) ==
    IF \E i \in DOMAIN rows : SameIdentity(rows[i], ind)
    THEN [i \in DOMAIN rows |->
            IF SameIdentity(rows[i], ind)
            THEN [rows[i] EXCEPT !.last_seen_at = NOW(@)] ELSE rows[i]]
    ELSE Append(rows, [indicator_type |-> ind.indicator_type,
                       value |-> ind.value,
                       source_file_hash |-> ind.source_file_hash,
                       source_relative_path |-> ind.source_relative_path,
                       source_line |-> ind.source_line,
                       channel_id |-> ind.channel_id,
                       first_seen_at |-> FirstTime,
                       last_seen_at |-> FirstTime])

-----------------------------------------------------------------------------
(* DeduplicationService *)

\* A check that lets every FileRef through
should_process_anyway(rows, file) == TRUE

\* should_process_by_telegram_id: not exists_by_telegram_id
should_process_by_telegram_id(rows, file) ==
    ~exists_by_telegram_id(rows, file.telegram_file_id)

\* A content check that answers for the fingerprint without the negation
should_process_known_content(rows, bytes) ==
    <<exists_by_hash(rows, compute_blake2b_from_path(bytes)),
      compute_blake2b_from_path(bytes)>>

\* should_process_by_content: the fingerprint of the bytes at file_path,
\* then (not exists_by_hash, fingerprint)
should_process_by_content(rows, bytes) ==
    LET file_hash == compute_blake2b_from_path(bytes)
    IN <<~exists_by_hash(rows, file_hash), file_hash>>

JobRows(id) == {i \in DOMAIN processing_jobs : processing_jobs[i].job_id = id}
FileRows(key) ==
    {i \in DOMAIN processed_files : processed_files[i].telegram_file_id = key}

-----------------------------------------------------------------------------
(* StorageAdapter *)

\* base / file_hash[:2] / file_hash[2:4] / file_hash / safe_name
get_deterministic_path(h, filename) ==
    [prefix1 |-> SubSeq(HexDigest(h), 1, 2),
     prefix2 |-> SubSeq(HexDigest(h), 3, 4),
     file_hash |-> h,
     name |-> _sanitize_filename(filename)]

NoFiles == << >>

\* tempfile.mkdtemp(dir=<base>/.tmp): a fresh, empty scratch directory d
mkdtemp(dirs, d) == dirs @@ (d :> NoFiles)

\* shutil.rmtree(path, ignore_errors=True)
rmtree(dirs, d) == [x \in (DOMAIN dirs) \ {d} |-> dirs[x]]

\* Path.unlink(missing_ok=True) of the file name in directory d
unlink(dirs, d, name) ==
    IF d \in DOMAIN dirs
    THEN [dirs EXCEPT ![d] = [n \in (DOMAIN dirs[d]) \ {name} |-> dirs[d][n]]]
    ELSE dirs

\* cleanup_extraction_dir: rmtree when the path exists and is a directory
cleanup_extraction_dir(dirs, d) ==
    IF d \in DOMAIN dirs THEN rmtree(dirs, d) ELSE dirs

-----------------------------------------------------------------------------
(* IngestionService._safe_extract and the scan *)

ZipSuffix == <<".", "z", "i", "p">>
RarSuffix == <<".", "r", "a", "r">>

ValueError(text, len) == [type |-> "ValueError", text |-> text, len |-> len]

\* The extraction directory as a path: <base>/.tmp/<name made by mkdtemp>
ExtractDir == <<Seg_d, Seg_s>>

\* The member loop lets the name through: the text of the resolved member
\* path starts with the text of the resolved extraction directory.
MemberPasses(extract_dir, filename) ==
    StartsWith(Str(Resolve(JoinPath(extract_dir, filename), << >>)),
               Str(Resolve(extract_dir, << >>)))

\* The .rar branch up to extractall: the count guard, the size guard and
\* the member loop
RarChecks(archive) ==
    IF archive.namelist > max_files
    THEN ValueError("Arquivo RAR suspeito", 35)
    ELSE IF archive.total_size > max_total_size
         THEN ValueError("Tamanho total suspeito", 33)
         ELSE IF \E i \in DOMAIN archive.infolist :
                    ~MemberPasses(ExtractDir, archive.infolist[i])
              THEN ValueError("Path traversal detectado", 40)
              ELSE NoError

\* The .zip branch with a count guard that trips at max_files already
ZipChecksFromLimit(archive) ==
    IF archive.namelist >= max_files
    THEN ValueError("Arquivo ZIP suspeito", 35)
    ELSE IF archive.total_size > max_total_size
         THEN ValueError("Tamanho total suspeito", 33)
         ELSE IF \E i \in DOMAIN archive.infolist :
                    ~MemberPasses(ExtractDir, archive.infolist[i])
              THEN ValueError("Path traversal detectado", 40)
              ELSE NoError

\* The .zip branch up to extractall
ZipChecks(archive) ==
    IF archive.namelist > max_files
    THEN ValueError("Arquivo ZIP suspeito", 35)
    ELSE IF archive.total_size > max_total_size
         THEN ValueError("Tamanho total suspeito", 33)
         ELSE IF \E i \in DOMAIN archive.infolist :
                    ~MemberPasses(ExtractDir, archive.infolist[i])
              THEN ValueError("Path traversal detectado", 40)
              ELSE NoError

\* The exception _safe_extract raises for the archive at archive_name, or
\* NoError when it goes on to extractall.
_safe_extract(archive_name, archive) ==
    IF Suffix(archive_name) = RarSuffix THEN RarChecks(archive)
    ELSE IF Suffix(archive_name) = ZipSuffix THEN ZipChecks(archive)
    ELSE ValueError("Formato nao suportado", 27)

\* scan_directory: one ExtractedIndicator per match, in scan order
scan_directory(archive, source_file_hash, channel_id) ==
    [i \in DOMAIN archive.matches |->
        [indicator_type |-> archive.matches[i].indicator_type,
         value |-> archive.matches[i].value,
         source_file_hash |-> source_file_hash,
         source_relative_path |-> archive.matches[i].source_relative_path,
         source_line |-> archive.matches[i].source_line,
         channel_id |-> channel_id]]

\* The message recorded whole
error_msg_whole(e) == [type |-> e.type, text |-> e.text, len |-> e.len]

\* error_msg = f"{type(e).__name__}: {str(e)[:200]}"
error_msg(e) == [type |-> e.type, text |-> e.text, len |-> Min(e.len, ErrorLimit)]

-----------------------------------------------------------------------------
(* The state after construction: main() up to the start of the tasks *)

IdleTask ==
    [pc |-> "idle", file |-> NoFile, job_id |-> NoJob, temp_dir |-> NoDir,
     file_hash |-> NULL, extract_dir |-> NoDir, indicators |-> << >>,
     found |-> 0, exc |-> NoError, raised_at |-> "none", cancel |-> FALSE]

AbsentTask == [IdleTask EXCEPT !.pc = "absent"]

\* No component is being run on its own.
Off == [pc |-> "off"]
UnitsOff ==
    /\ extract = Off
    /\ safe_path = Off
    /\ putters = << >>
    /\ dropped = {}
    /\ download = Off
    /\ persist = Off
    /\ teardown = Off
    /\ call = Off

ZeroStats ==
    [jobs_processed |-> 0, jobs_failed |-> 0, files_deduplicated |-> 0,
     indicators_found |-> 0]

Init ==
    /\ worker_count \in WorkerCounts
    /\ queue = << >>
    /\ events = 0
    /\ task = [w \in Workers |-> IF w <= worker_count THEN IdleTask ELSE AbsentTask]
    /\ semaphore = worker_count
    /\ running_jobs = {}
    /\ processing_jobs = << >>
    /\ processed_files = << >>
    /\ extracted_indicators = << >>
    /\ tmp = << >>
    /\ store = << >>
    /\ stats = ZeroStats
    /\ next_job = 1
    /\ faults = 0
    /\ restarts = 0
    /\ hist = << >>
    /\ UnitsOff

dbVars == <<processing_jobs, processed_files, extracted_indicators>>
fsVars == <<tmp, store>>
envVars == <<worker_count, events, restarts>>
loopVars == <<queue, semaphore, running_jobs, next_job, hist>>

\* The process is up: no shutdown has been requested since it started.
Running ==
    \A w \in ActiveWorkers : ~task[w].cancel /\ task[w].pc # "stopped"

\* Worker w is suspended at `at` and has not been cancelled.
At(w, at) == task[w].pc = at /\ ~task[w].cancel

\* mkdtemp gives a name no other directory has: the model names a scratch
\* directory after the job that makes it and what it is for.
FreshDir(w, use) == [job |-> task[w].job_id, use |-> use]

-----------------------------------------------------------------------------
(* TelegramAdapter.listen: the NewMessage handler *)

\* The handler builds the TelegramFile of a supported archive and puts it on
\* the queue while the queue has room.
Enqueue(f) ==
    /\ Running
    /\ Spent < Budget
    /\ Len(queue) < QueueFactor * worker_count
    /\ queue' = Append(queue, f)
    /\ events' = events + 1
    /\ UNCHANGED <<worker_count, restarts, task, semaphore, running_jobs,
                   next_job, hist, faults, stats>>
    /\ UNCHANGED dbVars
    /\ UNCHANGED fsVars

-----------------------------------------------------------------------------
(* _worker_loop and IngestionService.process_file *)

\* process_file leaves through return or through an exception: the finally
\* clause discards the job, the semaphore is released, and the worker loop
\* awaits queue.get() again.
Leave(w, how) ==
    /\ task' = [task EXCEPT ![w] = IdleTask]
    /\ semaphore' = semaphore + 1
    /\ running_jobs' = running_jobs \ {task[w].job_id}
    /\ hist' = [hist EXCEPT ![task[w].job_id] =
                  [exit |-> how, at |-> task[w].pc, caught |-> task[w].raised_at]]

\* The except Exception clause up to its await: the failed counter is
\* incremented and update_job_status(FAILED, error_msg) is issued.
Catch(w, e, t) ==
    /\ task' = [task EXCEPT ![w] = [t EXCEPT !.pc = "fail_update", !.exc = e,
                                             !.raised_at = t.pc]]
    /\ stats' = [stats EXCEPT !.jobs_failed = @ + 1]

\* queue.get() returns a file; process_file takes a permit, builds the
\* ProcessingJob and awaits log_job. The idle tasks are interchangeable: the
\* first of them takes the file.
Dequeue(w) ==
    /\ At(w, "idle")
    /\ \A v \in ActiveWorkers : v < w => task[v].pc # "idle"
    /\ queue # << >>
    /\ semaphore > 0
    /\ queue' = Tail(queue)
    /\ semaphore' = semaphore - 1
    /\ running_jobs' = running_jobs \cup {next_job}
    /\ next_job' = next_job + 1
    /\ hist' = hist @@ (next_job :> [exit |-> "running", at |-> "none", caught |-> "none"])
    /\ task' = [task EXCEPT ![w] =
                  [IdleTask EXCEPT !.pc = "log_job", !.file = Head(queue),
                                   !.job_id = next_job]]
    /\ UNCHANGED <<faults, stats>>
    /\ UNCHANGED envVars
    /\ UNCHANGED dbVars
    /\ UNCHANGED fsVars

\* await self.db.log_job(job)
LogJob(w) ==
    /\ At(w, "log_job")
    /\ processing_jobs' =
          log_job(processing_jobs,
                  [job_id |-> task[w].job_id, file |-> task[w].file,
                   status |-> QUEUED, created_at |-> FirstTime])
    /\ task' = [task EXCEPT ![w].pc = "dedup1"]
    /\ UNCHANGED <<processed_files, extracted_indicators, faults, stats>>
    /\ UNCHANGED envVars
    /\ UNCHANGED loopVars
    /\ UNCHANGED fsVars

\* Stage 1 without its return: a known key is counted and the file is
\* fetched all the same
Dedup1FallsThrough(w) ==
    /\ At(w, "dedup1")
    /\ IF ~should_process_by_telegram_id(processed_files, task[w].file)
       THEN /\ stats' = [stats EXCEPT !.files_deduplicated = @ + 1]
            /\ task' = [task EXCEPT ![w].pc = "fetch"]
       ELSE /\ stats' = stats
            /\ task' = [task EXCEPT ![w].pc = "fetch"]
    /\ UNCHANGED faults
    /\ UNCHANGED envVars
    /\ UNCHANGED loopVars
    /\ UNCHANGED dbVars
    /\ UNCHANGED fsVars

\* Stage 1: should_process_by_telegram_id
Dedup1(w) ==
    /\ At(w, "dedup1")
    /\ IF ~should_process_by_telegram_id(processed_files, task[w].file)
       THEN /\ stats' = [stats EXCEPT !.files_deduplicated = @ + 1]
            /\ task' = [task EXCEPT ![w].pc = "dedup1_update"]
       ELSE /\ stats' = stats
            /\ task' = [task EXCEPT ![w].pc = "fetch"]
    /\ UNCHANGED faults
    /\ UNCHANGED envVars
    /\ UNCHANGED loopVars
    /\ UNCHANGED dbVars
    /\ UNCHANGED fsVars

\* Stage 1, already known: update_job_status(COMPLETED) and return
Dedup1Update(w) ==
    /\ At(w, "dedup1_update")
    /\ processing_jobs' =
          update_job_status(processing_jobs, task[w].job_id, COMPLETED,
                            NoError, NULL)
    /\ Leave(w, "returned")
    /\ UNCHANGED <<processed_files, extracted_indicators, faults, stats,
                   queue, next_job>>
    /\ UNCHANGED envVars
    /\ UNCHANGED fsVars

\* Stage 2: _fetch_message returns the message; _download_with_isolation
\* makes its temp_dir and awaits download_file.
Fetch(w) ==
    /\ At(w, "fetch")
    /\ tmp' = mkdtemp(tmp, FreshDir(w, "download"))
    /\ task' = [task EXCEPT ![w].pc = "download",
                            ![w].temp_dir = FreshDir(w, "download")]
    /\ UNCHANGED <<store, faults, stats>>
    /\ UNCHANGED envVars
    /\ UNCHANGED loopVars
    /\ UNCHANGED dbVars

\* download_file writing the document at its final path in the storage
DownloadIntoStorage(w) ==
    /\ At(w, "download")
    /\ store' = (get_deterministic_path(
                    compute_blake2b_from_path(RemoteBytes(task[w].file.telegram_file_id)),
                    task[w].file.filename)
                 :> RemoteBytes(task[w].file.telegram_file_id)) @@ store
    /\ tmp' = [tmp EXCEPT ![task[w].temp_dir] =
                  (_sanitize_filename(task[w].file.filename) :>
                      RemoteBytes(task[w].file.telegram_file_id))]
    /\ task' = [task EXCEPT ![w].pc = "hash"]
    /\ UNCHANGED <<faults, stats>>
    /\ UNCHANGED envVars
    /\ UNCHANGED loopVars
    /\ UNCHANGED dbVars

\* download_file returns: temp_path holds the document's bytes;
\* should_process_by_content awaits the hashing thread.
Download(w) ==
    /\ At(w, "download")
    /\ tmp' = [tmp EXCEPT ![task[w].temp_dir] =
                  (_sanitize_filename(task[w].file.filename) :>
                      RemoteBytes(task[w].file.telegram_file_id))]
    /\ task' = [task EXCEPT ![w].pc = "hash"]
    /\ UNCHANGED <<store, faults, stats>>
    /\ UNCHANGED envVars
    /\ UNCHANGED loopVars
    /\ UNCHANGED dbVars

\* compute_blake2b_from_path(temp_path) returns; exists_by_hash is awaited.
Hash(w) ==
    /\ At(w, "hash")
    /\ task' = [task EXCEPT ![w].pc = "dedup2",
                            ![w].file_hash =
                               compute_blake2b_from_path(
                                  tmp[task[w].temp_dir]
                                     [_sanitize_filename(task[w].file.filename)])]
    /\ UNCHANGED <<faults, stats>>
    /\ UNCHANGED envVars
    /\ UNCHANGED loopVars
    /\ UNCHANGED dbVars
    /\ UNCHANGED fsVars

\* The temp file of worker w and the final path persist_file gives it
TempName(w) == _sanitize_filename(task[w].file.filename)
FinalPath(w) == get_deterministic_path(task[w].file_hash, task[w].file.filename)

FileNotFoundError == [type |-> "FileNotFoundError", text |-> "Arquivo temporario", len |-> 60]

\* Stage 3 without temp_path.unlink on known content
Dedup2KeepsTemp(w) ==
    /\ At(w, "dedup2")
    /\ IF exists_by_hash(processed_files, task[w].file_hash)
       THEN /\ tmp' = tmp
            /\ stats' = [stats EXCEPT !.files_deduplicated = @ + 1]
            /\ task' = [task EXCEPT ![w].pc = "dedup2_update"]
       ELSE IF TempName(w) \notin DOMAIN tmp[task[w].temp_dir]
            THEN /\ tmp' = tmp
                 /\ Catch(w, FileNotFoundError, task[w])
            ELSE IF FinalPath(w) \in DOMAIN store
                 THEN /\ tmp' = unlink(tmp, task[w].temp_dir, TempName(w))
                      /\ stats' = stats
                      /\ task' = [task EXCEPT ![w].pc = "record"]
                 ELSE /\ tmp' = tmp
                      /\ stats' = stats
                      /\ task' = [task EXCEPT ![w].pc = "rename"]
    /\ UNCHANGED <<store, faults>>
    /\ UNCHANGED envVars
    /\ UNCHANGED loopVars
    /\ UNCHANGED dbVars

\* Stage 3: exists_by_hash returns. Known content: unlink the temp file and
\* await update_job_status. New content: persist_file runs up to its first
\* await, the rename in a thread, or returns the existing final path.
Dedup2(w) ==
    /\ At(w, "dedup2")
    /\ IF exists_by_hash(processed_files, task[w].file_hash)
       THEN /\ tmp' = unlink(tmp, task[w].temp_dir, TempName(w))
            /\ stats' = [stats EXCEPT !.files_deduplicated = @ + 1]
            /\ task' = [task EXCEPT ![w].pc = "dedup2_update"]
       ELSE IF TempName(w) \notin DOMAIN tmp[task[w].temp_dir]
            THEN /\ tmp' = tmp
                 /\ Catch(w, FileNotFoundError, task[w])
            ELSE IF FinalPath(w) \in DOMAIN store
                 THEN /\ tmp' = unlink(tmp, task[w].temp_dir, TempName(w))
                      /\ stats' = stats
                      /\ task' = [task EXCEPT ![w].pc = "record"]
                 ELSE /\ tmp' = tmp
                      /\ stats' = stats
                      /\ task' = [task EXCEPT ![w].pc = "rename"]
    /\ UNCHANGED <<store, faults>>
    /\ UNCHANGED envVars
    /\ UNCHANGED loopVars
    /\ UNCHANGED dbVars

\* Stage 3, known content: update_job_status(COMPLETED, file_hash) and return
Dedup2Update(w) ==
    /\ At(w, "dedup2_update")
    /\ processing_jobs' =
          update_job_status(processing_jobs, task[w].job_id, COMPLETED,
                            NoError, task[w].file_hash)
    /\ Leave(w, "returned")
    /\ UNCHANGED <<processed_files, extracted_indicators, faults, stats,
                   queue, next_job>>
    /\ UNCHANGED envVars
    /\ UNCHANGED fsVars

\* temp_path.rename(final_path) in the thread (or copy2 and unlink): the file
\* is at final_path, replacing what was there, and gone from temp_dir.
rename(files, dirs, d, name, final) == (final :> dirs[d][name]) @@ files

\* Stage 4: the rename returns; record_processed_file is awaited.
Rename(w) ==
    /\ At(w, "rename")
    /\ store' = rename(store, tmp, task[w].temp_dir, TempName(w), FinalPath(w))
    /\ tmp' = unlink(tmp, task[w].temp_dir, TempName(w))
    /\ task' = [task EXCEPT ![w].pc = "record"]
    /\ UNCHANGED <<faults, stats>>
    /\ UNCHANGED envVars
    /\ UNCHANGED loopVars
    /\ UNCHANGED dbVars

\* Stage 4: record_processed_file returns; update_job_status is awaited.
Record(w) ==
    /\ At(w, "record")
    /\ processed_files' =
          record_processed_file(processed_files, task[w].file, task[w].file_hash,
                                FinalPath(w))
    /\ task' = [task EXCEPT ![w].pc = "persist_update"]
    /\ UNCHANGED <<processing_jobs, extracted_indicators, faults, stats>>
    /\ UNCHANGED envVars
    /\ UNCHANGED loopVars
    /\ UNCHANGED fsVars

\* Stage 4 ends: update_job_status(COMPLETED, file_hash) returns. Stage 5
\* runs without suspending up to the first persist_indicator:
\* create_extraction_dir, _safe_extract and scan_directory. An exception of
\* _safe_extract passes the finally clause (cleanup_extraction_dir) and is
\* caught by process_file.
PersistUpdate(w) ==
    LET archive == Archive(store[FinalPath(w)])
        e == _safe_extract(FinalPath(w).name, archive)
        inds == scan_directory(archive, task[w].file_hash, task[w].file.channel_id)
        d == FreshDir(w, "extract")
    IN
    /\ At(w, "persist_update")
    /\ processing_jobs' =
          update_job_status(processing_jobs, task[w].job_id, COMPLETED,
                            NoError, task[w].file_hash)
    /\ IF e # NoError
       THEN /\ tmp' = cleanup_extraction_dir(mkdtemp(tmp, d), d)
            /\ Catch(w, e, [task[w] EXCEPT !.pc = "extract"])
       ELSE IF inds = << >>
            THEN /\ tmp' = cleanup_extraction_dir(mkdtemp(tmp, d), d)
                 /\ stats' = stats
                 /\ task' = [task EXCEPT ![w].pc = "final_update"]
            ELSE /\ tmp' = [mkdtemp(tmp, d) EXCEPT ![d] =
                               [n \in archive.members |-> "member"]]
                 /\ stats' = stats
                 /\ task' = [task EXCEPT ![w].pc = "persist_indicator",
                                         ![w].extract_dir = d,
                                         ![w].indicators = inds,
                                         ![w].found = Len(inds)]
    /\ UNCHANGED <<processed_files, extracted_indicators, store, faults>>
    /\ UNCHANGED envVars
    /\ UNCHANGED loopVars

\* Stage 5: one persist_indicator returns. After the last one the finally
\* clause removes the extraction directory and the final update_job_status
\* is awaited.
PersistIndicator(w) ==
    /\ At(w, "persist_indicator")
    /\ extracted_indicators' =
          persist_indicator(extracted_indicators, Head(task[w].indicators))
    /\ IF Tail(task[w].indicators) = << >>
       THEN /\ tmp' = cleanup_extraction_dir(tmp, task[w].extract_dir)
            /\ task' = [task EXCEPT ![w].pc = "final_update",
                                    ![w].indicators = << >>,
                                    ![w].extract_dir = NoDir]
       ELSE /\ tmp' = tmp
            /\ task' = [task EXCEPT ![w].indicators = Tail(@)]
    /\ UNCHANGED <<processing_jobs, processed_files, store, faults, stats>>
    /\ UNCHANGED envVars
    /\ UNCHANGED loopVars

\* The last update_job_status(COMPLETED) returns: the counters are updated
\* and process_file returns.
FinalUpdate(w) ==
    /\ At(w, "final_update")
    /\ processing_jobs' =
          update_job_status(processing_jobs, task[w].job_id, COMPLETED,
                            NoError, NULL)
    /\ stats' = [stats EXCEPT !.jobs_processed = @ + 1,
                              !.indicators_found = @ + task[w].found]
    /\ Leave(w, "returned")
    /\ UNCHANGED <<processed_files, extracted_indicators, faults, queue, next_job>>
    /\ UNCHANGED envVars
    /\ UNCHANGED fsVars

\* The handler without its update_job_status
FailUpdateUnrecorded(w) ==
    /\ At(w, "fail_update")
    /\ processing_jobs' = processing_jobs
    /\ Leave(w, "returned")
    /\ UNCHANGED <<processed_files, extracted_indicators, faults, stats,
                   queue, next_job>>
    /\ UNCHANGED envVars
    /\ UNCHANGED fsVars

\* The handler's update_job_status(FAILED, error=error_msg) returns.
FailUpdate(w) ==
    /\ At(w, "fail_update")
    /\ processing_jobs' =
          update_job_status(processing_jobs, task[w].job_id, FAILED,
                            error_msg(task[w].exc), NULL)
    /\ Leave(w, "returned")
    /\ UNCHANGED <<processed_files, extracted_indicators, faults, stats,
                   queue, next_job>>
    /\ UNCHANGED envVars
    /\ UNCHANGED fsVars

-----------------------------------------------------------------------------
(* Failures of the environment *)

ConnectionError == [type |-> "ConnectionError", text |-> "connection lost", len |-> 15]
OSError == [type |-> "OSError", text |-> "read failed", len |-> 11]
DownloadError == [type |-> "RuntimeError", text |-> "Download falhou", len |-> 250]
MessageNotFound == ValueError("Mensagem nao encontrada", 40)

DatabaseCalls == {"log_job", "dedup1", "dedup1_update", "dedup2", "dedup2_update",
                  "record", "persist_update", "persist_indicator", "final_update"}

\* The exception the awaited call of a worker suspended at `at` can raise
RaisedAt(at) ==
    CASE at \in DatabaseCalls -> ConnectionError
      [] at = "fetch" -> MessageNotFound
      [] at = "download" -> DownloadError
      [] at \in {"hash", "rename"} -> OSError

\* The awaited call raises (or _fetch_message returns None). The exception
\* passes the cleanup of the scope it is raised in (_download_with_isolation
\* removes temp_dir, _extract_and_scan removes extract_dir) and is caught by
\* process_file.
Raise(w) ==
    /\ task[w].pc \in DatabaseCalls \cup {"fetch", "download", "hash", "rename"}
    /\ ~task[w].cancel
    /\ faults < MaxFaults
    /\ Spent < Budget
    /\ faults' = faults + 1
    /\ tmp' = CASE task[w].pc = "download" -> rmtree(tmp, task[w].temp_dir)
                [] task[w].pc = "persist_indicator" ->
                       cleanup_extraction_dir(tmp, task[w].extract_dir)
                [] OTHER -> tmp
    /\ Catch(w, RaisedAt(task[w].pc),
             [task[w] EXCEPT !.extract_dir = NoDir, !.indicators = << >>])
    /\ UNCHANGED store
    /\ UNCHANGED envVars
    /\ UNCHANGED loopVars
    /\ UNCHANGED dbVars

\* The handler's own update_job_status raises: the exception leaves
\* process_file, _worker_loop logs it and awaits queue.get() again.
HandlerRaises(w) ==
    /\ At(w, "fail_update")
    /\ faults < MaxFaults
    /\ Spent < Budget
    /\ faults' = faults + 1
    /\ Leave(w, "raised")
    /\ UNCHANGED <<stats, queue, next_job>>
    /\ UNCHANGED envVars
    /\ UNCHANGED dbVars
    /\ UNCHANGED fsVars

-----------------------------------------------------------------------------
(* Shutdown: main() cancels the worker tasks *)

\* The workers that are inside process_file
Busy == {w \in ActiveWorkers : task[w].pc # "idle"}

\* The cancellation handled as a failure of the job: the rows of the running
\* jobs become FAILED and the failed counter counts them.
ShutdownAsFailure ==
    /\ Running
    /\ task' = [w \in Workers |->
                   IF w \in ActiveWorkers
                   THEN [IdleTask EXCEPT !.pc = "stopped", !.cancel = TRUE]
                   ELSE task[w]]
    /\ semaphore' = semaphore + Cardinality(Busy)
    /\ running_jobs' = running_jobs \ {task[w].job_id : w \in Busy}
    /\ hist' = [j \in DOMAIN hist |->
                   IF \E w \in Busy : task[w].job_id = j
                   THEN LET t == task[CHOOSE w \in Busy : task[w].job_id = j]
                        IN [exit |-> "cancelled", at |-> t.pc, caught |-> t.raised_at]
                   ELSE hist[j]]
    /\ tmp' = [d \in (DOMAIN tmp) \ {task[w].extract_dir : w \in Busy} |-> tmp[d]]
    /\ processing_jobs' =
          [i \in DOMAIN processing_jobs |->
              IF processing_jobs[i].job_id \in {task[w].job_id : w \in Busy}
              THEN [processing_jobs[i] EXCEPT !.status = FAILED]
              ELSE processing_jobs[i]]
    /\ stats' = [stats EXCEPT !.jobs_failed = @ + Cardinality(Busy)]
    /\ UNCHANGED <<queue, next_job, store, faults>>
    /\ UNCHANGED envVars
    /\ UNCHANGED <<processed_files, extracted_indicators>>

\* for w in workers: w.cancel(). CancelledError is thrown into every worker at
\* the await it is suspended at. Inside process_file it passes the finally
\* clauses (cleanup_extraction_dir, _running_jobs.discard, the semaphore) and
\* is re-raised by the except CancelledError clause; _worker_loop breaks.
\* Nothing else runs between the cancel() calls and the unwinding, and the
\* workers unwind independently: the model takes them in one step.
Shutdown ==
    /\ Running
    /\ task' = [w \in Workers |->
                   IF w \in ActiveWorkers
                   THEN [IdleTask EXCEPT !.pc = "stopped", !.cancel = TRUE]
                   ELSE task[w]]
    /\ semaphore' = semaphore + Cardinality(Busy)
    /\ running_jobs' = running_jobs \ {task[w].job_id : w \in Busy}
    /\ hist' = [j \in DOMAIN hist |->
                   IF \E w \in Busy : task[w].job_id = j
                   THEN LET t == task[CHOOSE w \in Busy : task[w].job_id = j]
                        IN [exit |-> "cancelled", at |-> t.pc, caught |-> t.raised_at]
                   ELSE hist[j]]
    /\ tmp' = [d \in (DOMAIN tmp) \ {task[w].extract_dir : w \in Busy} |-> tmp[d]]
    /\ UNCHANGED <<queue, next_job, store, faults, stats>>
    /\ UNCHANGED envVars
    /\ UNCHANGED dbVars

\* The process is started again after a shutdown: new tasks, an empty queue
\* and fresh counters over the same database and storage directory.
Restart ==
    /\ \A w \in ActiveWorkers : task[w].pc = "stopped"
    /\ restarts < MaxRestarts
    /\ Spent < Budget
    /\ restarts' = restarts + 1
    /\ task' = [w \in Workers |-> IF w \in ActiveWorkers THEN IdleTask ELSE task[w]]
    /\ queue' = << >>
    /\ semaphore' = worker_count
    /\ running_jobs' = {}
    /\ stats' = ZeroStats
    /\ UNCHANGED <<worker_count, events, next_job, hist, faults>>
    /\ UNCHANGED dbVars
    /\ UNCHANGED fsVars

-----------------------------------------------------------------------------

Next ==
    \/ \E f \in Files : Enqueue(f) /\ UNCHANGED unitVars
    \/ \E w \in ActiveWorkers : Dequeue(w) /\ UNCHANGED unitVars
    \/ \E w \in ActiveWorkers : LogJob(w) /\ UNCHANGED unitVars
    \/ \E w \in ActiveWorkers : Dedup1(w) /\ UNCHANGED unitVars
    \/ \E w \in ActiveWorkers : Dedup1Update(w) /\ UNCHANGED unitVars
    \/ \E w \in ActiveWorkers : Fetch(w) /\ UNCHANGED unitVars
    \/ \E w \in ActiveWorkers : Download(w) /\ UNCHANGED unitVars
    \/ \E w \in ActiveWorkers : Hash(w) /\ UNCHANGED unitVars
    \/ \E w \in ActiveWorkers : Dedup2(w) /\ UNCHANGED unitVars
    \/ \E w \in ActiveWorkers : Dedup2Update(w) /\ UNCHANGED unitVars
    \/ \E w \in ActiveWorkers : Rename(w) /\ UNCHANGED unitVars
    \/ \E w \in ActiveWorkers : Record(w) /\ UNCHANGED unitVars
    \/ \E w \in ActiveWorkers : PersistUpdate(w) /\ UNCHANGED unitVars
    \/ \E w \in ActiveWorkers : PersistIndicator(w) /\ UNCHANGED unitVars
    \/ \E w \in ActiveWorkers : FinalUpdate(w) /\ UNCHANGED unitVars
    \/ \E w \in ActiveWorkers : FailUpdate(w) /\ UNCHANGED unitVars
    \/ \E w \in ActiveWorkers : Raise(w) /\ UNCHANGED unitVars
    \/ \E w \in ActiveWorkers : HandlerRaises(w) /\ UNCHANGED unitVars
    \/ Shutdown /\ UNCHANGED unitVars
    \/ Restart /\ UNCHANGED unitVars

Spec == Init /\ [][Next]_vars

-----------------------------------------------------------------------------
(* Observations used by the properties *)

\* No worker is inside process_file.
Quiescent == \A w \in ActiveWorkers : task[w].pc \in {"idle", "stopped"}

\* The job rows of the process_file calls on remote key `key` that returned
\* with the job COMPLETED
CompletedRuns(key) ==
    {i \in DOMAIN processing_jobs :
        /\ processing_jobs[i].telegram_file_id = key
        /\ processing_jobs[i].status = COMPLETED
        /\ hist[processing_jobs[i].job_id].exit = "returned"}

\* Some identity (kind, value, source fingerprint, source line) has two rows.
DuplicateIndicator ==
    \E i, k \in DOMAIN extracted_indicators :
        i # k /\ SameIdentity(extracted_indicators[i], extracted_indicators[k])

\* Every indicator a scan of the archive with fingerprint h reports has a row.
IndicatorsPersisted(bytes) ==
    \A m \in DOMAIN Archive(bytes).matches :
        \E i \in DOMAIN extracted_indicators :
            /\ extracted_indicators[i].indicator_type = Archive(bytes).matches[m].indicator_type
            /\ extracted_indicators[i].value = Archive(bytes).matches[m].value
            /\ extracted_indicators[i].source_line = Archive(bytes).matches[m].source_line
            /\ extracted_indicators[i].source_file_hash = compute_blake2b_from_path(bytes)

-----------------------------------------------------------------------------
(* C1 *)

C2_TwiceLeavesOneRow ==
    (worker_count = 1 /\ Quiescent) =>
        \A f \in Files :
            Cardinality(CompletedRuns(f.telegram_file_id)) >= 2
               => /\ Cardinality(FileRows(f.telegram_file_id)) = 1
                  /\ ~DuplicateIndicator

(* C3 *)

\* C3: when two workers have processed FileRefs with the same remote key, the
\* key has exactly one processed_files row, made by one insert and one
\* last_seen touch: the second worker left at DEDUP1 or its upsert conflicted
\* and touched last_seen_at.
C3_RaceOneInsertOneTouch ==
    (worker_count = 2 /\ Quiescent) =>
        \A f \in Files :
            Cardinality(CompletedRuns(f.telegram_file_id)) = 2
               => /\ Cardinality(FileRows(f.telegram_file_id)) = 1
                  /\ \/ \E i \in CompletedRuns(f.telegram_file_id) :
                            hist[processing_jobs[i].job_id].at = "dedup1_update"
                     \/ \E r \in FileRows(f.telegram_file_id) :
                            processed_files[r].last_seen_at > processed_files[r].first_seen_at

(* C4 *)

C5_UnsafeArchiveLeavesNoRow ==
    \A i \in DOMAIN processing_jobs :
        ( /\ hist[processing_jobs[i].job_id].exit = "returned"
          /\ processing_jobs[i].error.text = "Arquivo ZIP suspeito" )
        => /\ processing_jobs[i].status = FAILED
           /\ processing_jobs[i].error.type = "UnsafeArchive"
           /\ FileRows(processing_jobs[i].telegram_file_id) = {}
           /\ \A r \in DOMAIN extracted_indicators :
                 extracted_indicators[r].source_file_hash # processing_jobs[i].file_hash

(* C6 *)

\* C6: after F1 and then F2 (the same bytes under another remote key and file
\* name) have been ingested, processed_files holds one row for each key with
\* the same fingerprint, the rows point to distinct paths in the same
\* fingerprint directory, and both files are in the store.
C6_SameBytesOtherKeyGetsRow ==
    ( /\ worker_count = 1
      /\ Quiescent
      /\ CompletedRuns(F1.telegram_file_id) # {}
      /\ CompletedRuns(F2.telegram_file_id) # {}
      /\ \A i \in CompletedRuns(F1.telegram_file_id) :
            \A k \in CompletedRuns(F2.telegram_file_id) : i < k )
    => /\ Cardinality(FileRows(F1.telegram_file_id)) = 1
       /\ Cardinality(FileRows(F2.telegram_file_id)) = 1
       /\ \A r \in FileRows(F1.telegram_file_id) :
             \A q \in FileRows(F2.telegram_file_id) :
                /\ processed_files[r].file_hash = processed_files[q].file_hash
                /\ processed_files[r].storage_path # processed_files[q].storage_path
                /\ processed_files[r].storage_path.file_hash
                      = processed_files[q].storage_path.file_hash
                /\ processed_files[r].storage_path \in DOMAIN store
                /\ processed_files[q].storage_path \in DOMAIN store

(* C7 *)

\* C7: when process_file has run on a FileRef whose remote key already had a
\* processed_files row (it returned from stage 1), the key has one row and
\* the row's last_seen_at has advanced past its first_seen_at.
C7_ReappearanceTouchesLastSeen ==
    \A i \in DOMAIN processing_jobs :
        ( /\ hist[processing_jobs[i].job_id].exit = "returned"
          /\ hist[processing_jobs[i].job_id].at = "dedup1_update" )
        => /\ Cardinality(FileRows(processing_jobs[i].telegram_file_id)) = 1
           /\ \A r \in FileRows(processing_jobs[i].telegram_file_id) :
                 processed_files[r].last_seen_at > processed_files[r].first_seen_at

(* C8 *)

\* C8: a step that delivers the cancellation leaves every job row and the
\* failed counter as they were, ends every running process_file call as
\* cancelled at the await it was suspended at, and stops the worker tasks.
C8_CancellationPropagates ==
    [][(Running /\ ~Running') =>
          /\ processing_jobs' = processing_jobs
          /\ stats' = stats
          /\ \A w \in ActiveWorkers :
                /\ task'[w].pc = "stopped"
                /\ task[w].pc # "idle" =>
                      /\ hist'[task[w].job_id].exit = "cancelled"
                      /\ hist'[task[w].job_id].at = task[w].pc
                      /\ task[w].job_id \notin running_jobs']_vars

\* C8 witness: the process has been shut down while a handler was awaiting
\* its update_job_status, and that job's row is not FAILED.
C8_Witness ==
    /\ \E i \in DOMAIN processing_jobs :
          /\ hist[processing_jobs[i].job_id].exit = "cancelled"
          /\ hist[processing_jobs[i].job_id].at = "fail_update"
          /\ processing_jobs[i].status # FAILED
    /\ ~Running

(* C9 *)

\* The awaits and synchronous steps of process_file from _fetch_message to
\* the last update_job_status
AfterDedup1 ==
    {"fetch", "download", "hash", "dedup2", "dedup2_update", "rename", "record",
     "persist_update", "extract", "persist_indicator", "final_update"}

\* C9 as stated: every process_file call that caught an exception and was not
\* cancelled has its job row FAILED.
C9_CaughtMeansFailedRow ==
    \A j \in DOMAIN hist :
        ( /\ hist[j].at = "fail_update"
          /\ hist[j].caught \in AfterDedup1
          /\ hist[j].exit \in {"returned", "raised"} )
        => \E i \in JobRows(j) : processing_jobs[i].status = FAILED

\* C9 amended: catching an exception increments the failed counter by
\* exactly 1 and nothing else does; when the handler's update_job_status
\* returns, the job row is FAILED with the exception's kind and the first 200
\* characters of its message; whether that update returns or raises, the
\* counter stays and the worker awaits the queue again.
C9_HandlerRecordsFailure ==
    [][/\ (\A v \in ActiveWorkers :
               task'[v].pc = "fail_update" => task[v].pc = "fail_update")
              => stats'.jobs_failed \in {stats.jobs_failed, 0}
       /\ \A w \in ActiveWorkers :
          /\ (task[w].pc \in AfterDedup1 /\ task'[w].pc = "fail_update")
                => /\ stats'.jobs_failed = stats.jobs_failed + 1
                   /\ task'[w].job_id = task[w].job_id
          /\ ( /\ task[w].pc = "fail_update"
               /\ task[w].raised_at \in AfterDedup1
               /\ hist'[task[w].job_id].exit = "returned" )
                => /\ \A i \in JobRows(task[w].job_id) :
                         /\ processing_jobs'[i].status = FAILED
                         /\ processing_jobs'[i].error.type = task[w].exc.type
                         /\ processing_jobs'[i].error.text = task[w].exc.text
                         /\ processing_jobs'[i].error.len =
                               (IF task[w].exc.len > ErrorLimit
                                THEN ErrorLimit ELSE task[w].exc.len)
                   /\ JobRows(task[w].job_id) # {}
                   /\ stats' = stats
                   /\ task'[w].pc = "idle"
          /\ (task[w].pc = "fail_update" /\ hist'[task[w].job_id].exit = "raised")
                => /\ processing_jobs' = processing_jobs
                   /\ stats' = stats
                   /\ task'[w].pc = "idle"]_vars

\* C9 witness: a job failed by a download error has its row FAILED with the
\* message cut at 200 characters.
C9_Witness ==
    \E i \in DOMAIN processing_jobs :
        /\ hist[processing_jobs[i].job_id] =
              [exit |-> "returned", at |-> "fail_update", caught |-> "download"]
        /\ processing_jobs[i].status = FAILED
        /\ processing_jobs[i].error.type = "RuntimeError"
        /\ processing_jobs[i].error.len = ErrorLimit

(* C10 *)

\* C10: once a process_file call has ended, however it ended, no scratch
\* directory it made is left under .tmp.
C10_NoScratchLeftBehind ==
    \A j \in DOMAIN hist :
        hist[j].exit # "running" => \A d \in DOMAIN tmp : d.job # j

-----------------------------------------------------------------------------
(* A component run on its own *)

\* The main variables while a component is run on its own
MainOff ==
    /\ worker_count = 1
    /\ queue = << >>
    /\ events = 0
    /\ task = [w \in Workers |-> IF w <= 1 THEN IdleTask ELSE AbsentTask]
    /\ semaphore = 1
    /\ running_jobs = {}
    /\ processing_jobs = << >>
    /\ processed_files = << >>
    /\ extracted_indicators = << >>
    /\ tmp = << >>
    /\ store = << >>
    /\ stats = ZeroStats
    /\ next_job = 1
    /\ faults = 0
    /\ restarts = 0
    /\ hist = << >>

-----------------------------------------------------------------------------
(* hash_utils.validate_safe_path *)

Base_s == <<Seg_s>>
Base_d_s == <<Seg_d, Seg_s>>
BasePaths == {Base_s, Base_d_s}

\* The ValueError of validate_safe_path, or the resolved path
validate_safe_path(base_path, user_path) ==
    LET resolved == Resolve(JoinPath(base_path, user_path), << >>)
    IN IF ~StartsWith(Str(resolved), Str(Resolve(base_path, << >>)))
       THEN [raised |-> TRUE, path |-> << >>]
       ELSE [raised |-> FALSE, path |-> resolved]

InitPath ==
    /\ MainOff
    /\ extract = Off
    /\ putters = << >>
    /\ dropped = {}
    /\ download = Off
    /\ persist = Off
    /\ teardown = Off
    /\ call = Off
    /\ \E b \in BasePaths, u \in UserPaths :
          safe_path = [pc |-> "call", base_path |-> b, user_path |-> u,
                       raised |-> FALSE, path |-> << >>]

ValidateSafePath ==
    /\ safe_path.pc = "call"
    /\ LET r == validate_safe_path(safe_path.base_path, safe_path.user_path)
       IN safe_path' = [safe_path EXCEPT !.pc = "done", !.raised = r.raised,
                                         !.path = r.path]
    /\ UNCHANGED mainVars
    /\ UNCHANGED <<extract, putters, dropped, download, persist, teardown, call>>

NextPath == ValidateSafePath

SpecPath == InitPath /\ [][NextPath]_vars

(* C13 *)

\* The user path leaves the base: resolved, it is neither the base nor below
\* it.
LeavesBase(base_path, user_path) ==
    ~IsWithin(Resolve(JoinPath(base_path, user_path), << >>),
              Resolve(base_path, << >>))

\* C13: validate_safe_path fails for every user path that leaves the base
\* (through ".." or by being absolute), and what it returns is the base or
\* has the base among its ancestors.
C13_ReturnsOnlyPathsUnderBase ==
    safe_path.pc = "done" =>
        /\ LeavesBase(safe_path.base_path, safe_path.user_path) => safe_path.raised
        /\ ~safe_path.raised => IsWithin(safe_path.path, Resolve(safe_path.base_path, << >>))

-----------------------------------------------------------------------------
(* IngestionService._safe_extract, one call *)

Str_a_rar == <<"a", ".", "r", "a", "r">>
Str_a_txt == <<"a", ".", "t", "x", "t">>
ArchiveNames == {Str_a_zip, Str_a_rar, Str_a_txt}

\* Member names as an archive can spell them
MemberNames ==
    {PathText(<<Seg_f>>, FALSE), PathText(<<Seg_d, Seg_f>>, FALSE),
     PathText(<<Seg_up, Seg_s, Seg_f>>, FALSE),
     PathText(<<Seg_up, Seg_sx, Seg_f>>, FALSE),
     PathText(<<Seg_up, Seg_up, Seg_f>>, FALSE),
     PathText(<<Seg_up>>, FALSE),
     PathText(<<Seg_f>>, TRUE),
     PathText(<<Seg_d, Seg_s, Seg_f>>, TRUE),
     PathText(<<Seg_d, Seg_sx>>, TRUE),
     PathText(<< >>, FALSE)}

\* The most members an archive of the exploration spells out
MaxMembers == 2

\* Further members with plain names, and the declared sizes summed (MiB)
Paddings == {0, 998, 999, 2000}
TotalSizes == {1, 10240, 10241}

Archives ==
    {[namelist |-> Len(names) + pad, total_size |-> size, infolist |-> names] :
        names \in UNION {[1..n -> MemberNames] : n \in 1..MaxMembers},
        pad \in Paddings, size \in TotalSizes}

RECURSIVE DropUp(_)
\* ZipFile._extract_member: the parts of the member name without "..", ""
\* and "." (RarFile sanitizes member names the same way)
DropUp(parts) ==
    IF parts = << >> THEN << >>
    ELSE IF Head(parts) = Seg_up THEN DropUp(Tail(parts))
    ELSE <<Head(parts)>> \o DropUp(Tail(parts))

\* Where extractall(path=extract_dir) writes the member
ExtractTarget(extract_dir, filename) ==
    extract_dir \o DropUp(SplitPath(filename, << >>))

IsADirectoryError == [type |-> "IsADirectoryError", text |-> "Is a directory", len |-> 14]

InitExtract ==
    /\ MainOff
    /\ safe_path = Off
    /\ putters = << >>
    /\ dropped = {}
    /\ download = Off
    /\ persist = Off
    /\ teardown = Off
    /\ call = Off
    /\ \E n \in ArchiveNames, a \in Archives :
          extract = [pc |-> "call", archive_name |-> n, archive |-> a, i |-> 0,
                     exc |-> NoError, written |-> {}]

\* The suffix test, the two bomb guards and the member loop
SafeExtractChecks ==
    LET e == _safe_extract(extract.archive_name, extract.archive)
    IN
    /\ extract.pc = "call"
    /\ extract' = [extract EXCEPT !.pc = IF e = NoError THEN "extractall" ELSE "raised",
                                  !.exc = e]
    /\ UNCHANGED mainVars
    /\ UNCHANGED <<safe_path, putters, dropped, download, persist, teardown, call>>

\* extractall writes the next member; a member whose name has no part left
\* is opened as the directory itself, which raises.
ExtractMember ==
    LET filename == extract.archive.infolist[extract.i + 1]
        target == ExtractTarget(ExtractDir, filename)
    IN
    /\ extract.pc = "extractall"
    /\ extract.i < Len(extract.archive.infolist)
    /\ extract' = IF target = ExtractDir
                  THEN [extract EXCEPT !.pc = "raised", !.exc = IsADirectoryError]
                  ELSE [extract EXCEPT !.i = @ + 1, !.written = @ \cup {target}]
    /\ UNCHANGED mainVars
    /\ UNCHANGED <<safe_path, putters, dropped, download, persist, teardown, call>>

\* extractall returns, and so does _safe_extract
ExtractReturn ==
    /\ extract.pc = "extractall"
    /\ extract.i = Len(extract.archive.infolist)
    /\ extract' = [extract EXCEPT !.pc = "done"]
    /\ UNCHANGED mainVars
    /\ UNCHANGED <<safe_path, putters, dropped, download, persist, teardown, call>>

NextExtract ==
    \/ SafeExtractChecks
    \/ ExtractMember
    \/ ExtractReturn

SpecExtract == InitExtract /\ [][NextExtract]_vars

\* The member's path, resolved, is neither the extraction directory nor
\* below it.
ResolvesOutside(filename) ==
    ~IsWithin(Resolve(JoinPath(ExtractDir, filename), << >>),
              Resolve(ExtractDir, << >>))

(* C11 *)

\* C11: nothing is written before the checks have passed, and when a bomb
\* guard trips or some member name resolves outside the extraction
\* directory, _safe_extract raises from its checks and has written nothing.
C11_ChecksBeforeAnyWrite ==
    /\ extract.pc = "call" => extract.written = {}
    /\ ( /\ extract.pc \notin {"off", "call"}
         /\ \/ extract.archive.namelist > max_files
            \/ extract.archive.total_size > max_total_size
            \/ \E i \in DOMAIN extract.archive.infolist :
                  ResolvesOutside(extract.archive.infolist[i]) )
       => (extract.pc = "raised" /\ extract.written = {})

(* C12 *)

\* C12: once _safe_extract has accepted an archive, every member's resolved
\* path is the extraction directory or below it, part by part (a member that
\* is not was rejected), and so is every file written.
C12_AcceptedMembersAreDescendants ==
    extract.pc \in {"extractall", "done"} =>
        /\ \A i \in DOMAIN extract.archive.infolist :
              ~ResolvesOutside(extract.archive.infolist[i])
        /\ \A f \in extract.written : IsWithin(f, Resolve(ExtractDir, << >>))

-----------------------------------------------------------------------------
(* TelegramAdapter.listen: the handler's bounded put, against the workers *)

\* timeout=30.0 of the handler's wait_for
PutTimeout == 30

\* The longest stretch of time taken in one step, and the number of
\* messages the listener handles
TickSeconds == 15
MaxMessages == 6

\* The TelegramFile of the n-th message: its key is chat, message and
\* document id.
Doc(n) == [telegram_file_id |-> <<100, n, n>>, channel_id |-> 100,
           filename |-> Str_a_zip]

Full == Len(queue) >= QueueFactor * worker_count

InitLoad ==
    /\ worker_count \in WorkerCounts
    /\ queue = << >>
    /\ events = 0
    /\ task = [w \in Workers |-> IF w <= worker_count THEN IdleTask ELSE AbsentTask]
    /\ semaphore = worker_count
    /\ running_jobs = {}
    /\ processing_jobs = << >>
    /\ processed_files = << >>
    /\ extracted_indicators = << >>
    /\ tmp = << >>
    /\ store = << >>
    /\ stats = ZeroStats
    /\ next_job = 1
    /\ faults = 0
    /\ restarts = 0
    /\ hist = << >>
    /\ UnitsOff

loadVars == <<worker_count, task, semaphore, running_jobs, processing_jobs,
              processed_files, extracted_indicators, tmp, store, stats,
              next_job, faults, restarts, hist>>

\* put_nowait whatever the queue holds: a queue without maxsize
HandlerPutUnbounded ==
    /\ events < MaxMessages
    /\ events' = events + 1
    /\ queue' = Append(queue, Doc(events + 1))
    /\ UNCHANGED <<putters, dropped>>
    /\ UNCHANGED loadVars
    /\ UNCHANGED <<extract, safe_path, download, persist, teardown, call>>

\* The handler of a new message reaches wait_for(output_queue.put(file), 30):
\* the file is put at once when the queue has room, else the handler is
\* suspended.
HandlerPut ==
    /\ events < MaxMessages
    /\ events' = events + 1
    /\ IF Full
       THEN /\ putters' = Append(putters, [file |-> Doc(events + 1), waited |-> 0])
            /\ queue' = queue
       ELSE /\ queue' = Append(queue, Doc(events + 1))
            /\ putters' = putters
    /\ UNCHANGED dropped
    /\ UNCHANGED loadVars
    /\ UNCHANGED <<extract, safe_path, download, persist, teardown, call>>

\* putters without its i-th element
WithoutPutter(i) ==
    SubSeq(putters, 1, i - 1) \o SubSeq(putters, i + 1, Len(putters))

\* A suspended put finds room and completes.
PutCompletes(i) ==
    /\ i \in DOMAIN putters
    /\ ~Full
    /\ queue' = Append(queue, putters[i].file)
    /\ putters' = WithoutPutter(i)
    /\ UNCHANGED <<events, dropped>>
    /\ UNCHANGED loadVars
    /\ UNCHANGED <<extract, safe_path, download, persist, teardown, call>>

\* The timeout is recorded, but the put is left pending.
PutTimesOutStillPending(i) ==
    /\ i \in DOMAIN putters
    /\ putters[i].waited = PutTimeout
    /\ putters[i].file \notin dropped
    /\ dropped' = dropped \cup {putters[i].file}
    /\ UNCHANGED <<events, queue, putters>>
    /\ UNCHANGED loadVars
    /\ UNCHANGED <<extract, safe_path, download, persist, teardown, call>>

\* wait_for cancels the put after 30 seconds; the handler logs the warning
\* and drops the file.
PutTimesOut(i) ==
    /\ i \in DOMAIN putters
    /\ putters[i].waited = PutTimeout
    /\ putters' = WithoutPutter(i)
    /\ dropped' = dropped \cup {putters[i].file}
    /\ UNCHANGED <<events, queue>>
    /\ UNCHANGED loadVars
    /\ UNCHANGED <<extract, safe_path, download, persist, teardown, call>>

\* Time passes for the suspended handlers, no further than the next timeout.
LongestWait ==
    CHOOSE t \in {putters[i].waited : i \in DOMAIN putters} :
        \A i \in DOMAIN putters : putters[i].waited <= t

Tick ==
    /\ putters # << >>
    /\ LongestWait < PutTimeout
    /\ LET d == Min(TickSeconds, PutTimeout - LongestWait)
       IN putters' = [i \in DOMAIN putters |->
                         [putters[i] EXCEPT !.waited = @ + d]]
    /\ UNCHANGED <<events, queue, dropped>>
    /\ UNCHANGED loadVars
    /\ UNCHANGED <<extract, safe_path, download, persist, teardown, call>>

\* The stages of process_file after log_job, taken whole: the call leaves
\* and the worker awaits the queue again.
ProcessFileEnds(w) ==
    /\ At(w, "dedup1")
    /\ Leave(w, "returned")
    /\ UNCHANGED <<worker_count, queue, events, processing_jobs, processed_files,
                   extracted_indicators, tmp, store, stats, next_job, faults,
                   restarts>>
    /\ UNCHANGED unitVars

NextLoad ==
    \/ HandlerPut
    \/ \E i \in DOMAIN putters : PutCompletes(i)
    \/ \E i \in DOMAIN putters : PutTimesOut(i)
    \/ Tick
    \/ \E w \in ActiveWorkers : Dequeue(w) /\ UNCHANGED unitVars
    \/ \E w \in ActiveWorkers : LogJob(w) /\ UNCHANGED unitVars
    \/ \E w \in ActiveWorkers : ProcessFileEnds(w)

SpecLoad == InitLoad /\ [][NextLoad]_vars

\* Where the FileRef of the n-th message is
Places(n) ==
    [queued |-> Cardinality({i \in DOMAIN queue : queue[i] = Doc(n)}),
     putting |-> Cardinality({i \in DOMAIN putters : putters[i].file = Doc(n)}),
     taken |-> Cardinality({w \in ActiveWorkers : task[w].file = Doc(n)}),
     logged |-> Cardinality({i \in DOMAIN processing_jobs :
                   processing_jobs[i].telegram_file_id = Doc(n).telegram_file_id}),
     dropped |-> IF Doc(n) \in dropped THEN 1 ELSE 0]

(* C14 *)

\* C14: at most worker_count jobs are inside the semaphore, the queue holds
\* at most 3 x worker_count FileRefs, and so at most 4 x worker_count FileRefs
\* have been accepted and not finished.
C14_InFlightIsBounded ==
    /\ semaphore >= 0
    /\ worker_count - semaphore <= worker_count
    /\ Cardinality(running_jobs) = worker_count - semaphore
    /\ Len(queue) <= 3 * worker_count
    /\ Len(queue) + Cardinality(running_jobs) <= 4 * worker_count

\* C14 witness: the queue is full, every permit is taken and a handler is
\* suspended in its put.
C14_Witness ==
    /\ Len(queue) = 3 * worker_count
    /\ semaphore = 0
    /\ Cardinality(running_jobs) = worker_count
    /\ putters # << >>

(* C15 *)

\* C15: no handler stays suspended in its put for more than 30 seconds; a
\* FileRef whose put timed out is in no queue, put or worker and has no job;
\* and every FileRef is in at most one place: enqueued at most once.
C15_TimedOutPutDropsForGood ==
    /\ \A i \in DOMAIN putters : putters[i].waited <= 30
    /\ \A n \in 1..events :
          LET at == Places(n)
          IN /\ at.dropped = 1 =>
                   at.queued = 0 /\ at.putting = 0 /\ at.taken = 0 /\ at.logged = 0
             /\ at.queued + at.putting + at.dropped <= 1
             /\ at.queued + at.putting + at.dropped = 1 =>
                   at.taken = 0 /\ at.logged = 0
             /\ at.logged <= 1 /\ at.taken <= 1

\* C15 witness: a FileRef was dropped after the queue stayed full for 30
\* seconds, and a FileRef that arrived after it has been processed.
C15_Witness ==
    \E n, m \in 1..events :
        /\ n < m
        /\ Places(n).dropped = 1
        /\ Places(m).logged = 1
        /\ \A w \in ActiveWorkers : task[w].pc = "idle"

-----------------------------------------------------------------------------
(* TelegramAdapter.download_file, one call *)

max_retries == 3
FloodCap == 300
BackoffBase == 2

\* message.document.size and the size of a partial file, in blocks
ExpectedSize == 2
PartialSize == 1

\* The size recorded for a path where there is no file
NoSuchFile == 0

\* The seconds a FloodWaitError can ask for
FloodSeconds == {10, 300, 400}

\* What one download_media call can do: write the whole file, write a file
\* of another length, or raise, leaving nothing or a partial file behind.
Outcomes ==
    {[kind |-> "ok", seconds |-> 0, left |-> ExpectedSize],
     [kind |-> "short", seconds |-> 0, left |-> PartialSize]}
    \cup {[kind |-> "flood", seconds |-> sec, left |-> l] :
             sec \in FloodSeconds, l \in {NoSuchFile, PartialSize}}
    \cup {[kind |-> k, seconds |-> 0, left |-> l] :
             k \in {"connection", "timeout", "other"}, l \in {NoSuchFile, PartialSize}}

RECURSIVE Power(_, _)
Power(b, n) == IF n = 0 THEN 1 ELSE b * Power(b, n - 1)

\* The sleep is whatever the server asks for.
FloodSleepUncapped(seconds) == seconds

\* sleep_sec = min(e.seconds, 300)
FloodSleep(seconds) == Min(seconds, FloodCap)

IOError == [type |-> "OSError", text |-> "Tamanho incorreto", len |-> 40]
FloodWaitError == [type |-> "FloodWaitError", text |-> "A wait is required", len |-> 30]
OtherError == [type |-> "RPCError", text |-> "rpc error", len |-> 9]
TimeoutError == [type |-> "TimeoutError", text |-> "timed out", len |-> 9]
RetriesExhausted == [type |-> "RuntimeError", text |-> "Download falhou", len |-> 34]

\* The exception a download_media outcome stands for
Raised(o) ==
    CASE o.kind = "short" -> IOError
      [] o.kind = "flood" -> FloodWaitError
      [] o.kind = "connection" -> ConnectionError
      [] o.kind = "timeout" -> TimeoutError
      [] o.kind = "other" -> OtherError
      [] OTHER -> NoError

InitDownload ==
    /\ MainOff
    /\ extract = Off
    /\ safe_path = Off
    /\ putters = << >>
    /\ dropped = {}
    /\ persist = Off
    /\ teardown = Off
    /\ call = Off
    /\ download = [pc |-> "download_media", attempt |-> 0, outcomes |-> << >>,
                   slept |-> << >>, dest_path |-> NoSuchFile, exc |-> NoError]

\* await self.client.download_media(...) ends with outcome o; the body of
\* the try and the except clauses run up to the sleep, the return or the
\* raise.
DownloadMedia(o) ==
    /\ download.pc = "download_media"
    /\ download' =
          [download EXCEPT
             !.outcomes = Append(@, o.kind),
             !.dest_path = IF o.kind = "short" THEN NoSuchFile ELSE o.left,
             !.pc = CASE o.kind = "ok" -> "returned"
                      [] o.kind = "flood" -> "sleep"
                      [] OTHER -> IF download.attempt < max_retries - 1
                                  THEN "sleep" ELSE "raised",
             !.slept = CASE o.kind = "ok" -> @
                         [] o.kind = "flood" -> Append(@, FloodSleep(o.seconds))
                         [] OTHER -> IF download.attempt < max_retries - 1
                                     THEN Append(@, Power(BackoffBase, download.attempt))
                                     ELSE @,
             !.exc = IF o.kind \notin {"ok", "flood"}
                        /\ download.attempt >= max_retries - 1
                     THEN Raised(o) ELSE @]
    /\ UNCHANGED mainVars
    /\ UNCHANGED <<extract, safe_path, putters, dropped, persist, teardown, call>>

\* asyncio.sleep returns: the next iteration of the for loop, or the
\* RuntimeError after it.
SleepEnds ==
    /\ download.pc = "sleep"
    /\ download' =
          IF download.attempt + 1 < max_retries
          THEN [download EXCEPT !.attempt = @ + 1, !.pc = "download_media"]
          ELSE [download EXCEPT !.attempt = @ + 1, !.pc = "raised",
                                !.exc = RetriesExhausted]
    /\ UNCHANGED mainVars
    /\ UNCHANGED <<extract, safe_path, putters, dropped, persist, teardown, call>>

NextDownload ==
    \/ \E o \in Outcomes : DownloadMedia(o)
    \/ SleepEnds

\* The event loop resumes the coroutine whenever the call it awaits has
\* ended.
SpecDownload == InitDownload /\ [][NextDownload]_vars /\ WF_vars(NextDownload)

(* C16 *)

\* C16: download_file calls download_media at most 3 times whatever errors
\* come, never sleeps more than 300 seconds for a flood wait, and ends: it
\* returns after an attempt that succeeded, or raises after the last attempt
\* failed.
C16_AtMostThreeAttemptsThenEnds ==
    /\ [](download.pc # "off" =>
            /\ Len(download.outcomes) <= 3
            /\ \A i \in DOMAIN download.slept :
                  download.outcomes[i] = "flood" => download.slept[i] <= 300
            /\ download.pc = "returned" =>
                  download.outcomes[Len(download.outcomes)] = "ok"
            /\ download.pc = "raised" =>
                  /\ Len(download.outcomes) = 3
                  /\ download.outcomes[3] # "ok"
                  /\ download.exc # NoError)
    /\ <>(download.pc \in {"returned", "raised"})

\* C16 witness: three flood waits, the second for more than 300 seconds,
\* and the call has raised.
C16_Witness ==
    /\ download.pc = "raised"
    /\ download.outcomes = <<"flood", "flood", "flood">>
    /\ download.slept = <<10, 300, 300>>

(* C17 *)

\* C17: download_file returns only with a file of the declared size, and an
\* attempt that yields another length ends the call: the partial file is
\* deleted and the error is raised, without another attempt.
C17_MismatchIsNotRetried ==
    /\ download.pc = "returned" => download.dest_path = ExpectedSize
    /\ \A i \in DOMAIN download.outcomes :
          download.outcomes[i] = "short" =>
              /\ download.pc = "raised"
              /\ download.exc = IOError
              /\ download.dest_path = NoSuchFile
              /\ i = Len(download.outcomes)

-----------------------------------------------------------------------------
(* main(): from the gather of the listener and the workers to the end *)

\* wait_for(gather(*workers), timeout=30.0)
TeardownTimeout == 30

\* How the gather of main() can end: KeyboardInterrupt raised in main(), the
\* main task cancelled (asyncio.run cancels every task once the interrupt
\* has left the loop), or an exception of the listener.
GatherEnds == {"KeyboardInterrupt", "CancelledError", "Exception"}

InitMain ==
    /\ MainOff
    /\ extract = Off
    /\ safe_path = Off
    /\ putters = << >>
    /\ dropped = {}
    /\ download = Off
    /\ persist = Off
    /\ call = Off
    /\ \E n \in WorkerCounts, busy \in SUBSET Workers :
          teardown = [pc |-> "gather", how |-> "none",
                      workers |-> [w \in 1..n |->
                                      IF w \in busy THEN "process_file" ELSE "queue_get"],
                      connected |-> TRUE, pool |-> TRUE, health |-> TRUE,
                      waited |-> 0, order |-> << >>]

mainUnchanged ==
    /\ UNCHANGED mainVars
    /\ UNCHANGED <<extract, safe_path, putters, dropped, download, persist, call>>

AllStopped == \A w \in DOMAIN teardown.workers : teardown.workers[w] = "done"

\* Task.cancel() on every worker that has not ended: CancelledError is
\* thrown into the worker at the await where it stands.
Cancelled(workers) ==
    [w \in DOMAIN workers |->
        CASE workers[w] = "queue_get" -> "cancelled_at_get"
          [] workers[w] = "process_file" -> "cancelled_in_job"
          [] OTHER -> workers[w]]

\* await asyncio.gather(listener, *workers) ends. The interrupt handler
\* cancels the workers itself; a cancelled gather cancels its children; an
\* exception of the listener leaves the workers running.
GatherRaises(how) ==
    /\ teardown.pc = "gather"
    /\ teardown' =
          [teardown EXCEPT
             !.how = how,
             !.workers = IF how = "Exception" THEN @ ELSE Cancelled(@),
             !.pc = IF how = "KeyboardInterrupt" THEN "except_disconnect"
                    ELSE "finally_wait"]
    /\ mainUnchanged

\* A cancelled worker reaches its except CancelledError clause and ends.
WorkerEnds(w) ==
    /\ w \in DOMAIN teardown.workers
    /\ teardown.workers[w] \in {"cancelled_at_get", "cancelled_in_job"}
    /\ teardown' = [teardown EXCEPT !.workers[w] = "done"]
    /\ mainUnchanged

\* TelegramAdapter.disconnect: a no-op once _connected is False
Disconnected(t) ==
    IF t.connected
    THEN [t EXCEPT !.connected = FALSE, !.order = Append(@, "telegram")]
    ELSE t

\* except KeyboardInterrupt: await telegram.disconnect() returns, or raises
\* and the finally clause runs with the exception pending.
ExceptDisconnect(ok) ==
    /\ teardown.pc = "except_disconnect"
    /\ teardown' = IF ok THEN [Disconnected(teardown) EXCEPT !.pc = "except_gather"]
                   ELSE [teardown EXCEPT !.pc = "finally_wait"]
    /\ mainUnchanged

\* except KeyboardInterrupt: await asyncio.gather(*workers, return_exceptions=True)
ExceptGather ==
    /\ teardown.pc = "except_gather"
    /\ AllStopped
    /\ teardown' = [teardown EXCEPT !.pc = "finally_wait"]
    /\ mainUnchanged

\* finally: the gather inside wait_for returns once every worker has ended.
FinallyWait ==
    /\ teardown.pc = "finally_wait"
    /\ AllStopped
    /\ teardown' = [teardown EXCEPT !.pc = "health_stop"]
    /\ mainUnchanged

\* finally: 30 seconds pass with a worker still there. wait_for cancels the
\* gather, and with it the workers, and raises TimeoutError out of main().
FinallyTimeout ==
    /\ teardown.pc = "finally_wait"
    /\ ~AllStopped
    /\ teardown' = [teardown EXCEPT !.pc = "raised", !.waited = TeardownTimeout,
                                    !.workers = Cancelled(@)]
    /\ mainUnchanged

\* finally: await health_server.stop()
HealthStop(ok) ==
    /\ teardown.pc = "health_stop"
    /\ teardown' = IF ok THEN [teardown EXCEPT !.pc = "db_disconnect", !.health = FALSE]
                   ELSE [teardown EXCEPT !.pc = "raised"]
    /\ mainUnchanged

\* finally: await db.disconnect() closes the pool, or raises out of main()
DbDisconnect(ok) ==
    /\ teardown.pc = "db_disconnect"
    /\ teardown' = IF ok
                   THEN [teardown EXCEPT !.pc = "telegram_disconnect", !.pool = FALSE,
                                         !.order = Append(@, "pool")]
                   ELSE [teardown EXCEPT !.pc = "raised"]
    /\ mainUnchanged

\* finally: await telegram.disconnect()
FinallyDisconnect(ok) ==
    /\ teardown.pc = "telegram_disconnect"
    /\ teardown' = IF ok THEN [Disconnected(teardown) EXCEPT !.pc = "done"]
                   ELSE [teardown EXCEPT !.pc = "raised"]
    /\ mainUnchanged

NextMain ==
    \/ \E how \in GatherEnds : GatherRaises(how)
    \/ \E w \in Workers : WorkerEnds(w)
    \/ \E ok \in BOOLEAN : ExceptDisconnect(ok)
    \/ ExceptGather
    \/ FinallyWait
    \/ FinallyTimeout
    \/ \E ok \in BOOLEAN : HealthStop(ok)
    \/ \E ok \in BOOLEAN : DbDisconnect(ok)
    \/ \E ok \in BOOLEAN : FinallyDisconnect(ok)

SpecMain == InitMain /\ [][NextMain]_vars

(* C18 *)

\* C18: whenever the pool has been closed after the workers ended, the
\* Telegram client was disconnected before it.
C18_DisconnectBeforePoolClose ==
    (teardown.pc # "off" /\ ~teardown.pool) =>
        /\ AllStopped
        /\ ~teardown.connected
        /\ teardown.order = <<"telegram", "pool">>

-----------------------------------------------------------------------------
(* StorageAdapter.persist_file, call after call on one adapter *)

\* How many calls one run makes
MaxCalls == 3

Contents == {"A", "B"}
Absent == "absent"
\* What a copy that failed half way leaves at its destination
Partial == "partial"

Str_a_slash_b == <<"a", "/", "b">>
Str_a_b == <<"a", "_", "b">>
OriginalNames == {Str_a_zip, Seg_up, Str_a_slash_b, Str_a_b}

\* StorageAdapter.__init__: base_path.resolve()
StorageBase(base) == Resolve(base, << >>)

\* hash_dir / safe_name, as the code joins it. The three parts cut from the
\* hex digest hold hex digits only, so each is one part of the path.
final_path(base, h, filename) ==
    LET hex == HexDigest(h)
        hash_dir == StorageBase(base) \o <<SubSeq(hex, 1, 2), SubSeq(hex, 3, 4), hex>>
    IN JoinPath(hash_dir, _sanitize_filename(filename))

InitPersist ==
    /\ MainOff
    /\ extract = Off
    /\ safe_path = Off
    /\ putters = << >>
    /\ dropped = {}
    /\ download = Off
    /\ teardown = Off
    /\ call = Off
    /\ \E base \in BasePaths :
          persist = [pc |-> "idle", base |-> base, files |-> << >>, temp |-> Absent,
                     file_hash |-> NULL, original_filename |-> << >>,
                     wrote |-> Absent, before |-> << >>, result |-> << >>,
                     via |-> "none", returned |-> {}, calls |-> 0]

persistUnchanged ==
    /\ UNCHANGED mainVars
    /\ UNCHANGED <<extract, safe_path, putters, dropped, download, teardown, call>>

PersistTarget == final_path(persist.base, persist.file_hash, persist.original_filename)

\* What a return adds to the record of the paths returned so far
Returns(p, path, via) ==
    [p EXCEPT !.pc = "returned", !.result = path, !.via = via,
              !.returned = @ \cup {[file_hash |-> p.file_hash,
                                    original_filename |-> p.original_filename,
                                    path |-> path]}]

\* The same branch without the unlink of the temp file
TargetExistsKeepsTemp(p, target) == Returns(p, target, "exists")

\* The branch taken when the target exists: unlink the temp file and return
\* final_path.
TargetExists(p, target) == Returns([p EXCEPT !.temp = Absent], target, "exists")

\* The caller writes bytes to its temp file (or has lost it: present is
\* FALSE), hashes them and calls persist_file, which runs to its first
\* await or to its end.
PersistFile(bytes, original_filename, present) ==
    LET h == compute_blake2b_from_path(bytes)
        target == final_path(persist.base, h, original_filename)
        called == [persist EXCEPT !.temp = IF present THEN bytes ELSE Absent,
                                  !.wrote = bytes,
                                  !.file_hash = h,
                                  !.original_filename = original_filename,
                                  !.before = persist.files,
                                  !.result = << >>,
                                  !.via = "none",
                                  !.calls = @ + 1]
    IN
    /\ persist.pc \in {"idle", "returned", "raised"}
    /\ persist.calls < MaxCalls
    /\ persist' =
          IF called.temp = Absent
          THEN [called EXCEPT !.pc = "raised", !.via = "FileNotFoundError"]
          ELSE IF target \in DOMAIN called.files
               THEN TargetExists(called, target)
               ELSE [called EXCEPT !.pc = "rename"]
    /\ persistUnchanged

\* The same move into a directory emptied first
MovedAlone(p, target, via) ==
    Returns([p EXCEPT !.files = (target :> p.temp), !.temp = Absent],
            Resolve(target, << >>), via)

\* The file is at final_path with the bytes of the temp file, which is gone;
\* final_path.resolve() is returned.
Moved(p, target, via) ==
    Returns([p EXCEPT !.files = (target :> p.temp) @@ @, !.temp = Absent],
            Resolve(target, << >>), via)

\* await asyncio.to_thread(temp_path.rename, final_path) returns
RenameReturns ==
    /\ persist.pc = "rename"
    /\ persist' = Moved(persist, PersistTarget, "rename")
    /\ persistUnchanged

\* the rename raises (another file system): the copy runs in a thread
RenameRaises ==
    /\ persist.pc = "rename"
    /\ persist' = [persist EXCEPT !.pc = "copy"]
    /\ persistUnchanged

\* shutil.copy2 returns; the temp file is unlinked
CopyReturns ==
    /\ persist.pc = "copy"
    /\ persist' = Moved(persist, PersistTarget, "copy")
    /\ persistUnchanged

\* shutil.copy2 raises, before it created the destination or with a part of
\* the bytes written; the exception leaves persist_file.
CopyRaises(created) ==
    /\ persist.pc = "copy"
    /\ persist' = [persist EXCEPT
                      !.pc = "raised", !.via = "copy",
                      !.files = IF created THEN (PersistTarget :> Partial) @@ @ ELSE @]
    /\ persistUnchanged

NextPersist ==
    \/ \E bytes \in Contents, name \in OriginalNames, present \in BOOLEAN :
          PersistFile(bytes, name, present)
    \/ RenameReturns
    \/ RenameRaises
    \/ CopyReturns
    \/ \E created \in BOOLEAN : CopyRaises(created)

SpecPersist == InitPersist /\ [][NextPersist]_vars

\* base/fp[0:2]/fp[2:4]/fp/sanitize_filename(name), part by part
CanonicalPath(base, h, name) ==
    StorageBase(base) \o <<SubSeq(HexDigest(h), 1, 2), SubSeq(HexDigest(h), 3, 4),
                           HexDigest(h), _sanitize_filename(name)>>

(* C19 *)

\* C19: after persist_file has returned, on any of its three paths, the path
\* returned is base/fp[0:2]/fp[2:4]/fp/sanitize_filename(name), the file
\* there has the bytes the temp file had, and the temp file is gone.
C19_PersistedAtCanonicalPath ==
    persist.pc = "returned" =>
        /\ persist.result =
              CanonicalPath(persist.base, persist.file_hash, persist.original_filename)
        /\ persist.result \in DOMAIN persist.files
        /\ persist.files[persist.result] = persist.wrote
        /\ persist.temp = Absent

(* C20 *)

\* The call in progress found its target in place when it began.
ExistedAtCall ==
    /\ persist.pc \notin {"off", "idle"}
    /\ PersistTarget \in DOMAIN persist.before

\* C20: a call that finds its target in place ends at once with the temp
\* file gone and the stored files as they were, and when the temp file was
\* there it returns the existing path; one (fingerprint, name) never gets
\* two different paths returned.
C20_ExistingTargetIsKept ==
    /\ ExistedAtCall =>
          /\ persist.pc \in {"returned", "raised"}
          /\ persist.temp = Absent
          /\ persist.files = persist.before
          /\ persist.via # "FileNotFoundError" =>
                /\ persist.pc = "returned"
                /\ persist.result = PersistTarget
    /\ persist.pc # "off" =>
          \A a, b \in persist.returned :
              (a.file_hash = b.file_hash
                  /\ _sanitize_filename(a.original_filename)
                        = _sanitize_filename(b.original_filename))
              => a.path = b.path

\* A second call for the same content and name has returned the existing
\* path, which the first call returned after its rename.
C20_Witness ==
    /\ ExistedAtCall
    /\ persist.pc = "returned"
    /\ persist.via = "exists"
    /\ persist.calls >= 2
    /\ \E a \in persist.returned :
          /\ a.file_hash = persist.file_hash
          /\ a.original_filename = persist.original_filename
          /\ a.path = persist.result

(* C21 *)

\* The directory a path lies in
Parent(path) == SubSeq(path, 1, Len(path) - 1)

-----------------------------------------------------------------------------
(* StorageAdapter._sanitize_filename, one call *)

\* The longest short filename explored, in characters
MaxNameLen == 3

\* A filename is a short text, alone or after 253 characters "x"
NameAlphabet == {"a", ".", " ", "/", "_", "é"}
LongPrefix == 253
ShortNames == UNION {[1..n -> NameAlphabet] : n \in 0..MaxNameLen}
Filenames ==
    ShortNames \cup {[i \in 1..LongPrefix |-> "x"] \o n : n \in ShortNames}

InitSanitize ==
    /\ MainOff
    /\ extract = Off
    /\ safe_path = Off
    /\ putters = << >>
    /\ dropped = {}
    /\ download = Off
    /\ persist = Off
    /\ teardown = Off
    /\ \E n \in Filenames :
          call = [pc |-> "call", filename |-> n, result |-> << >>]

Sanitize ==
    /\ call.pc = "call"
    /\ call' = [call EXCEPT !.pc = "returned",
                            !.result = _sanitize_filename(call.filename)]
    /\ UNCHANGED mainVars
    /\ UNCHANGED <<extract, safe_path, putters, dropped, download, persist, teardown>>

NextSanitize == Sanitize

SpecSanitize == InitSanitize /\ [][NextSanitize]_vars

(* C22 *)

\* [A-Za-z0-9_\-. ]
AsciiNameChars ==
    {"a", "b", "c", "d", "e", "f", "g", "h", "i", "j", "k", "l", "m", "n", "o",
     "p", "q", "r", "s", "t", "u", "v", "w", "x", "y", "z",
     "A", "B", "C", "D", "E", "F", "G", "H", "I", "J", "K", "L", "M", "N", "O",
     "P", "Q", "R", "S", "T", "U", "V", "W", "X", "Y", "Z",
     "0", "1", "2", "3", "4", "5", "6", "7", "8", "9", "_", "-", ".", " "}

\* C22: what _sanitize_filename returns holds only characters of
\* [A-Za-z0-9_\-. ], is at most 255 characters long and is not empty.
C22_SanitizedIsAsciiSafe ==
    call.pc = "returned" =>
        /\ \A i \in DOMAIN call.result : call.result[i] \in AsciiNameChars
        /\ Len(call.result) <= NameLimit
        /\ call.result # << >>

-----------------------------------------------------------------------------
(* DatabaseAdapter.persist_indicator, call after call *)

\* How many persist_indicator calls one run makes
MaxUpserts == 3

\* The indicators offered: two values on two lines, from two members
Indicators ==
    {[indicator_type |-> m.indicator_type, value |-> m.value,
      source_file_hash |-> "hA", source_relative_path |-> path,
      source_line |-> line, channel_id |-> F1.channel_id] :
        m \in {Archive("A").matches[i] : i \in DOMAIN Archive("A").matches},
        path \in {"hits.txt", "more.txt"},
        line \in {1, 2}}

\* The status conn.execute returns for INSERT ... ON CONFLICT DO UPDATE:
\* the command tag names the statement, INSERT, and counts the row whether
\* it was inserted or the conflicting row was updated.
execute_upsert_status(rows, ind) == [command |-> "INSERT", oid |-> 0, count |-> 1]

\* return result.startswith("INSERT")
persist_indicator_result(rows, ind) ==
    execute_upsert_status(rows, ind).command = "INSERT"

InitIndicators ==
    /\ MainOff
    /\ extract = Off
    /\ safe_path = Off
    /\ putters = << >>
    /\ dropped = {}
    /\ download = Off
    /\ persist = Off
    /\ teardown = Off
    /\ call = [pc |-> "idle", existed |-> FALSE, result |-> FALSE, calls |-> 0]

\* await db.persist_indicator(ind) returns
PersistIndicatorCall(ind) ==
    /\ call.pc \in {"idle", "returned"}
    /\ call.calls < MaxUpserts
    /\ extracted_indicators' = persist_indicator(extracted_indicators, ind)
    /\ call' = [pc |-> "returned",
                existed |-> \E i \in DOMAIN extracted_indicators :
                               SameIdentity(extracted_indicators[i], ind),
                result |-> persist_indicator_result(extracted_indicators, ind),
                calls |-> call.calls + 1]
    /\ UNCHANGED <<worker_count, queue, events, task, semaphore, running_jobs,
                   processing_jobs, processed_files, tmp, store, stats, next_job,
                   faults, restarts, hist>>
    /\ UNCHANGED <<extract, safe_path, putters, dropped, download, persist, teardown>>

NextIndicators == \E ind \in Indicators : PersistIndicatorCall(ind)

SpecIndicators == InitIndicators /\ [][NextIndicators]_vars

(* C23 *)

\* C23: persist_indicator returns TRUE exactly when no row had the
\* indicator's identity before the call; it then adds one row, and otherwise
\* adds none.
C23_TrueExactlyWhenInserted ==
    [][call'.pc = "returned" =>
          /\ call'.result <=> ~call'.existed
          /\ Len(extracted_indicators') =
                Len(extracted_indicators) + (IF call'.existed THEN 0 ELSE 1)]_vars

-----------------------------------------------------------------------------
(* C24 *)

\* The awaits of process_file at an update_job_status without a fingerprint
UpdatesWithoutHash == {"dedup1_update", "final_update", "fail_update"}

\* C24: no step changes a fingerprint a job row holds; when an
\* update_job_status without a fingerprint returns (the stage-1 update, the
\* final COMPLETED update, the FAILED update) the row keeps its fingerprint,
\* has the status and the error given, and its updated_at has advanced.
C24_FingerprintIsCoalesced ==
    [][/\ \A i \in DOMAIN processing_jobs :
             processing_jobs[i].file_hash # NULL
                => processing_jobs'[i].file_hash = processing_jobs[i].file_hash
       /\ \A w \in ActiveWorkers :
             ( /\ task[w].pc \in UpdatesWithoutHash
               /\ hist'[task[w].job_id].exit = "returned" )
             => \A i \in JobRows(task[w].job_id) :
                   /\ processing_jobs'[i].file_hash = processing_jobs[i].file_hash
                   /\ processing_jobs'[i].status =
                         (IF task[w].pc = "fail_update" THEN FAILED ELSE COMPLETED)
                   /\ processing_jobs'[i].error =
                         (IF task[w].pc = "fail_update"
                          THEN error_msg(task[w].exc) ELSE NoError)
                   /\ processing_jobs'[i].updated_at > processing_jobs[i].updated_at]_vars

\* C24 witness: a job whose fingerprint was recorded at stage 4 failed in the
\* extraction, and its row is FAILED with the fingerprint still there.
C24_Witness ==
    \E i \in DOMAIN processing_jobs :
        /\ hist[processing_jobs[i].job_id] =
              [exit |-> "returned", at |-> "fail_update", caught |-> "extract"]
        /\ processing_jobs[i].status = FAILED
        /\ processing_jobs[i].file_hash # NULL

-----------------------------------------------------------------------------
(* DeduplicationService over the processed_files table, call after call *)

\* How many calls one run makes
MaxDedupCalls == 4

InitDedup ==
    /\ MainOff
    /\ extract = Off
    /\ safe_path = Off
    /\ putters = << >>
    /\ dropped = {}
    /\ download = Off
    /\ persist = Off
    /\ teardown = Off
    /\ call = [pc |-> "idle", op |-> "none", key |-> "none", bytes |-> "none",
               result |-> FALSE, file_hash |-> NULL, recorded |-> {},
               hashed |-> {}, calls |-> 0]

dedupUnchanged ==
    /\ UNCHANGED <<worker_count, queue, events, task, semaphore, running_jobs,
                   processing_jobs, extracted_indicators, tmp, store, stats,
                   next_job, faults, restarts, hist>>
    /\ UNCHANGED <<extract, safe_path, putters, dropped, download, persist, teardown>>

DedupCall ==
    /\ call.pc \in {"idle", "returned"}
    /\ call.calls < MaxDedupCalls

\* await db.record_processed_file(file, file_hash, str(final_path)) with the
\* fingerprint of the bytes behind the remote key
RecordProcessedFile(f) ==
    LET h == compute_blake2b_from_path(RemoteBytes(f.telegram_file_id))
    IN
    /\ DedupCall
    /\ processed_files' =
          record_processed_file(processed_files, f, h,
                                get_deterministic_path(h, f.filename))
    /\ call' = [call EXCEPT !.pc = "returned", !.op = "record_processed_file",
                            !.key = f.telegram_file_id, !.file_hash = h,
                            !.recorded = @ \cup {[key |-> f.telegram_file_id,
                                                  file_hash |-> h]},
                            !.calls = @ + 1]
    /\ dedupUnchanged

\* await dedup.should_process_by_telegram_id(file)
ShouldProcessByTelegramId(f) ==
    /\ DedupCall
    /\ call' = [call EXCEPT !.pc = "returned", !.op = "should_process_by_telegram_id",
                            !.key = f.telegram_file_id,
                            !.result = should_process_by_telegram_id(processed_files, f),
                            !.calls = @ + 1]
    /\ UNCHANGED processed_files
    /\ dedupUnchanged

\* await dedup.should_process_by_content(file_path), the file holding bytes
ShouldProcessByContent(bytes) ==
    LET r == should_process_by_content(processed_files, bytes)
    IN
    /\ DedupCall
    /\ call' = [call EXCEPT !.pc = "returned", !.op = "should_process_by_content",
                            !.bytes = bytes, !.result = r[1], !.file_hash = r[2],
                            !.hashed = @ \cup {[bytes |-> bytes, file_hash |-> r[2]]},
                            !.calls = @ + 1]
    /\ UNCHANGED processed_files
    /\ dedupUnchanged

NextDedup ==
    \/ \E f \in Files : RecordProcessedFile(f)
    \/ \E f \in Files : ShouldProcessByTelegramId(f)
    \/ \E bytes \in {"A", "B"} : ShouldProcessByContent(bytes)

SpecDedup == InitDedup /\ [][NextDedup]_vars

(* C25 *)

\* C25: should_process_by_telegram_id answers TRUE exactly when
\* processed_files has no row with the FileRef's remote key, which is exactly
\* when no record_processed_file has been made for that key.
C25_TrueUntilKeyRecorded ==
    (call.pc = "returned" /\ call.op = "should_process_by_telegram_id") =>
        /\ call.result <=> FileRows(call.key) = {}
        /\ call.result <=> ~\E r \in call.recorded : r.key = call.key

\* C25 witness: the check has answered FALSE for a key recorded before it.
C25_Witness ==
    /\ call.pc = "returned"
    /\ call.op = "should_process_by_telegram_id"
    /\ ~call.result
    /\ \E r \in call.recorded : r.key = call.key

(* C26 *)

\* C26: should_process_by_content returns the fingerprint of the bytes, 64
\* characters long and the same for the same bytes on every call, with TRUE
\* exactly when no processed_files row carries it, which is exactly when no
\* remote key has been recorded with it.
C26_TrueUntilContentRecorded ==
    (call.pc = "returned" /\ call.op = "should_process_by_content") =>
        /\ call.file_hash = compute_blake2b_from_path(call.bytes)
        /\ Len(HexDigest(call.file_hash)) = 64
        /\ \A a, b \in call.hashed : a.bytes = b.bytes => a.file_hash = b.file_hash
        /\ call.result <=>
              ~\E i \in DOMAIN processed_files :
                   processed_files[i].file_hash = call.file_hash
        /\ call.result <=> ~\E r \in call.recorded : r.file_hash = call.file_hash

\* C26 witness: the same bytes were checked before and after a remote key was
\* recorded with their fingerprint, and the second answer is FALSE.
C26_Witness ==
    /\ call.pc = "returned"
    /\ call.op = "should_process_by_content"
    /\ ~call.result
    /\ call.calls >= 3
    /\ \E r \in call.recorded : r.file_hash = call.file_hash

-----------------------------------------------------------------------------
(* C27 *)

\* 10 GiB in MiB, the unit of total_size
TenGiB == 10 * 1024

\* C27: for a .zip or .rar archive none of whose entries resolves outside
\* the extraction directory, _safe_extract raises its ValueError exactly
\* when the archive lists more than 1000 entries or declares more than
\* 10 GiB; otherwise it goes on to extractall.
C27_BombGuardsAtTheLimits ==
    ( /\ extract.pc \notin {"off", "call"}
      /\ Suffix(extract.archive_name) \in {ZipSuffix, RarSuffix}
      /\ \A i \in DOMAIN extract.archive.infolist :
            ~ResolvesOutside(extract.archive.infolist[i]) )
    => /\ extract.exc.type = "ValueError"
             <=> (extract.archive.namelist > 1000 \/ extract.archive.total_size > TenGiB)
       /\ extract.exc.type = "ValueError"
             => (extract.pc = "raised" /\ extract.written = {})
       /\ extract.exc.type # "ValueError"
             => (extract.pc \in {"extractall", "done"} \/ extract.exc = IsADirectoryError)

\* C27 witness: a .rar archive of exactly 1000 entries declaring exactly
\* 10 GiB has been extracted.
C27_Witness ==
    /\ extract.pc = "done"
    /\ Suffix(extract.archive_name) = RarSuffix
    /\ extract.archive.namelist = 1000
    /\ extract.archive.total_size = TenGiB
    /\ extract.written # {}

\* A .zip archive of 1001 entries has been rejected.
C27_Rejected ==
    /\ extract.pc = "raised"
    /\ Suffix(extract.archive_name) = ZipSuffix
    /\ extract.archive.namelist = 1001
    /\ extract.archive.total_size = 1

-----------------------------------------------------------------------------
(* C28 *)

\* The only process_file call so far, on the archive with hits.txt, has
\* returned from its last statement.
FirstIngestReturned ==
    /\ next_job = 2
    /\ 1 \in DOMAIN hist
    /\ hist[1].exit = "returned"
    /\ hist[1].at = "final_update"
    /\ \E i \in DOMAIN processing_jobs :
          /\ processing_jobs[i].job_id = 1
          /\ RemoteBytes(processing_jobs[i].telegram_file_id) = "A"

\* (kind, value, source fingerprint, source line) of every indicator row
IndicatorIdentities ==
    {<<extracted_indicators[i].indicator_type, extracted_indicators[i].value,
       extracted_indicators[i].source_file_hash, extracted_indicators[i].source_line>> :
        i \in DOMAIN extracted_indicators}

\* C28: when the first ingest of the archive whose hits.txt has a watched
\* URL on line 1 and a watched IPv4 address on line 2 has returned, there is
\* one processed_files row, one job row, COMPLETED with the fingerprint, and
\* exactly two indicator rows: (domain, api.watched.org, fp, 1) and
\* (ipv4, 10.0.0.5, fp, 2).
C28_FirstIngestRows ==
    FirstIngestReturned =>
        /\ Len(processed_files) = 1
        /\ processed_files[1].file_hash = compute_blake2b_from_path("A")
        /\ Len(processing_jobs) = 1
        /\ processing_jobs[1].telegram_file_id = processed_files[1].telegram_file_id
        /\ processing_jobs[1].status = COMPLETED
        /\ processing_jobs[1].error = NoError
        /\ processing_jobs[1].file_hash = compute_blake2b_from_path("A")
        /\ Len(extracted_indicators) = 2
        /\ IndicatorIdentities =
              {<<"domain", "api.watched.org", compute_blake2b_from_path("A"), 1>>,
               <<"ipv4", "10.0.0.5", compute_blake2b_from_path("A"), 2>>}

\* C28 witness: the first ingest has returned and the scan's four matches
\* were counted.
C28_Witness ==
    /\ FirstIngestReturned
    /\ stats.indicators_found = 4
    /\ stats.jobs_processed = 1

-----------------------------------------------------------------------------
(* C29, C30 *)

\* Worker w goes on from the await it is suspended at: the call returns
\* rather than raising or being cancelled.
GoesOn(w) == task'[w].pc \notin {task[w].pc, "fail_update", "stopped"}

\* The job row of worker w's job after the step
JobRowAfter(w) ==
    processing_jobs'[CHOOSE i \in DOMAIN processing_jobs' :
                        processing_jobs'[i].job_id = task[w].job_id]

\* C29: when the pre-download check finds a processed_files row for the
\* remote key, the deduplicated counter goes up by exactly 1 and the call
\* waits for update_job_status without touching the database, the temp
\* directories or the storage; when that update returns the job is COMPLETED
\* and process_file returns, having made no temp or extraction directory,
\* with the counters, processed_files, the indicators and the storage as
\* they were.
C29_KnownKeyShortCircuits ==
    [][\A w \in Workers :
        /\ ( /\ At(w, "dedup1")
             /\ exists_by_telegram_id(processed_files, task[w].file.telegram_file_id)
             /\ GoesOn(w) )
           => /\ task'[w].pc = "dedup1_update"
              /\ stats' = [stats EXCEPT !.files_deduplicated = @ + 1]
              /\ UNCHANGED <<processing_jobs, processed_files, extracted_indicators,
                             tmp, store>>
        /\ ( /\ At(w, "dedup1_update")
             /\ GoesOn(w) )
           => /\ task'[w].pc = "idle"
              /\ hist'[task[w].job_id].exit = "returned"
              /\ JobRowAfter(w).status = COMPLETED
              /\ \A d \in DOMAIN tmp' : d.job # task[w].job_id
              /\ UNCHANGED <<stats, processed_files, extracted_indicators, tmp, store>>
      ]_vars

\* C29 witness: a job has returned COMPLETED from the pre-download check and
\* the deduplicated counter stands at 1.
C29_Witness ==
    \E i \in DOMAIN processing_jobs :
        /\ processing_jobs[i].status = COMPLETED
        /\ hist[processing_jobs[i].job_id].exit = "returned"
        /\ hist[processing_jobs[i].job_id].at = "dedup1_update"
        /\ stats.files_deduplicated = 1

\* C30: when the post-download check finds the fingerprint in
\* processed_files, the temp file is deleted, the deduplicated counter goes
\* up by exactly 1 and the call waits for update_job_status without touching
\* the database or the storage; when that update returns the job is COMPLETED
\* with that fingerprint and process_file returns, having made no extraction
\* directory, with the counters, processed_files, the indicators and the
\* storage as they were.
C30_KnownContentShortCircuits ==
    [][\A w \in Workers :
        /\ ( /\ At(w, "dedup2")
             /\ exists_by_hash(processed_files, task[w].file_hash)
             /\ GoesOn(w) )
           => /\ task'[w].pc = "dedup2_update"
              /\ TempName(w) \notin DOMAIN tmp'[task[w].temp_dir]
              /\ stats' = [stats EXCEPT !.files_deduplicated = @ + 1]
              /\ UNCHANGED <<processing_jobs, processed_files, extracted_indicators,
                             store>>
        /\ ( /\ At(w, "dedup2_update")
             /\ GoesOn(w) )
           => /\ task'[w].pc = "idle"
              /\ hist'[task[w].job_id].exit = "returned"
              /\ JobRowAfter(w).status = COMPLETED
              /\ JobRowAfter(w).file_hash = task[w].file_hash
              /\ task[w].file_hash # NULL
              /\ TempName(w) \notin DOMAIN tmp'[task[w].temp_dir]
              /\ [job |-> task[w].job_id, use |-> "extract"] \notin DOMAIN tmp'
              /\ UNCHANGED <<stats, processed_files, extracted_indicators, tmp, store>>
      ]_vars

\* C30 witness: a job has returned COMPLETED with the fingerprint from the
\* post-download check and the deduplicated counter stands at 1.
C30_Witness ==
    \E i \in DOMAIN processing_jobs :
        /\ processing_jobs[i].status = COMPLETED
        /\ processing_jobs[i].file_hash = compute_blake2b_from_path("A")
        /\ hist[processing_jobs[i].job_id].exit = "returned"
        /\ hist[processing_jobs[i].job_id].at = "dedup2_update"
        /\ stats.files_deduplicated = 1

-----------------------------------------------------------------------------
(* DatabaseAdapter: the four writing statements, call after call *)

\* How many statements one run executes
MaxStatements == 4

\* The rows offered to record_processed_file: each remote key with either
\* of two file names, fingerprints and storage paths
OfferedFiles ==
    {[file |-> [f EXCEPT !.filename = name], file_hash |-> h,
      storage_path |-> get_deterministic_path(h, name)] :
        f \in {F1, F2},
        name \in {Str_a_zip, Str_b_zip},
        h \in {"hA", "hB"}}

\* The indicators offered to persist_indicator: one identity per line, from
\* either of two members and either of two channels
OfferedIndicators ==
    {[indicator_type |-> "domain", value |-> "api.watched.org",
      source_file_hash |-> "hA", source_relative_path |-> path,
      source_line |-> line, channel_id |-> channel] :
        path \in {"hits.txt", "more.txt"},
        line \in {1, 2},
        channel \in {100, 200}}

InitStatements ==
    /\ MainOff
    /\ extract = Off
    /\ safe_path = Off
    /\ putters = << >>
    /\ dropped = {}
    /\ download = Off
    /\ persist = Off
    /\ teardown = Off
    /\ call = [pc |-> "idle", op |-> "none", offered |-> NoFile, calls |-> 0]

statementUnchanged ==
    /\ UNCHANGED <<worker_count, queue, events, task, semaphore, running_jobs,
                   tmp, store, stats, next_job, faults, restarts, hist>>
    /\ UNCHANGED <<extract, safe_path, putters, dropped, download, persist, teardown>>

StatementCall ==
    /\ call.pc \in {"idle", "returned"}
    /\ call.calls < MaxStatements

\* await db.log_job(job)
ExecuteLogJob(id, f) ==
    /\ StatementCall
    /\ processing_jobs' =
          log_job(processing_jobs,
                  [job_id |-> id, file |-> f, status |-> QUEUED,
                   created_at |-> FirstTime])
    /\ call' = [pc |-> "returned", op |-> "log_job", offered |-> f,
                calls |-> call.calls + 1]
    /\ UNCHANGED <<processed_files, extracted_indicators>>
    /\ statementUnchanged

\* await db.update_job_status(job_id, status, error, file_hash)
ExecuteUpdateJobStatus(id, status, h) ==
    /\ StatementCall
    /\ processing_jobs' =
          update_job_status(processing_jobs, id, status, NoError, h)
    /\ call' = [pc |-> "returned", op |-> "update_job_status", offered |-> NoFile,
                calls |-> call.calls + 1]
    /\ UNCHANGED <<processed_files, extracted_indicators>>
    /\ statementUnchanged

\* await db.record_processed_file(file, file_hash, storage_path)
ExecuteRecordProcessedFile(o) ==
    /\ StatementCall
    /\ processed_files' =
          record_processed_file(processed_files, o.file, o.file_hash, o.storage_path)
    /\ call' = [pc |-> "returned", op |-> "record_processed_file",
                offered |-> o.file, calls |-> call.calls + 1]
    /\ UNCHANGED <<processing_jobs, extracted_indicators>>
    /\ statementUnchanged

\* await db.persist_indicator(indicator)
ExecutePersistIndicator(ind) ==
    /\ StatementCall
    /\ extracted_indicators' = persist_indicator(extracted_indicators, ind)
    /\ call' = [pc |-> "returned", op |-> "persist_indicator", offered |-> NoFile,
                calls |-> call.calls + 1]
    /\ UNCHANGED <<processing_jobs, processed_files>>
    /\ statementUnchanged

NextStatements ==
    \/ \E id \in {1, 2}, f \in {F1, F2} : ExecuteLogJob(id, f)
    \/ \E id \in {1, 2}, status \in {COMPLETED, FAILED}, h \in {NULL, "hA"} :
          ExecuteUpdateJobStatus(id, status, h)
    \/ \E o \in OfferedFiles : ExecuteRecordProcessedFile(o)
    \/ \E ind \in OfferedIndicators : ExecutePersistIndicator(ind)

SpecStatements == InitStatements /\ [][NextStatements]_vars

(* C31 *)

\* The row as it was, but for last_seen_at
OnlyLastSeenTouched(before, after) ==
    after = [before EXCEPT !.last_seen_at = after.last_seen_at]

\* C31: no statement removes a row of processing_jobs, processed_files or
\* extracted_indicators, a job row stays the row of its job, and a
\* processed_files or extracted_indicators row that exists changes in
\* last_seen_at only: its remote key, fingerprint, storage path, file name
\* and first_seen_at, or its identity, relative path, channel and
\* first_seen_at, stay as inserted.
C31_RowsAreInsertOnly ==
    [][ /\ Len(processing_jobs') >= Len(processing_jobs)
        /\ Len(processed_files') >= Len(processed_files)
        /\ Len(extracted_indicators') >= Len(extracted_indicators)
        /\ \A i \in DOMAIN processing_jobs :
              /\ processing_jobs'[i].job_id = processing_jobs[i].job_id
              /\ processing_jobs'[i].telegram_file_id = processing_jobs[i].telegram_file_id
              /\ processing_jobs'[i].created_at = processing_jobs[i].created_at
        /\ \A i \in DOMAIN processed_files :
              OnlyLastSeenTouched(processed_files[i], processed_files'[i])
        /\ \A i \in DOMAIN extracted_indicators :
              OnlyLastSeenTouched(extracted_indicators[i], extracted_indicators'[i])
      ]_vars

\* C31 witness: a row of processed_files was offered again with another
\* file name and fingerprint, and an indicator row was offered again from
\* another member; both were touched.
C31_Witness ==
    /\ \E i \in DOMAIN processed_files :
          /\ processed_files[i].last_seen_at > processed_files[i].first_seen_at
          /\ call.op = "record_processed_file"
          /\ call.offered.telegram_file_id = processed_files[i].telegram_file_id
          /\ call.offered.filename # processed_files[i].filename
    /\ \E i \in DOMAIN extracted_indicators :
          extracted_indicators[i].last_seen_at > extracted_indicators[i].first_seen_at

-----------------------------------------------------------------------------
(* C32 *)

\* F1 and F2, the same bytes under two remote keys, have each been processed
\* once, by calls that returned with the job COMPLETED, with no failure of
\* the environment and no shutdown.
BothIngestedOnce ==
    /\ Quiescent
    /\ faults = 0
    /\ restarts = 0
    /\ Running
    /\ Len(processing_jobs) = 2
    /\ {processing_jobs[i].telegram_file_id : i \in DOMAIN processing_jobs}
          = {F1.telegram_file_id, F2.telegram_file_id}
    /\ \A i \in DOMAIN processing_jobs :
          /\ processing_jobs[i].status = COMPLETED
          /\ hist[processing_jobs[i].job_id].exit = "returned"

\* (remote key, fingerprint) of every processed_files row
FileRowSet ==
    {<<processed_files[i].telegram_file_id, processed_files[i].file_hash>> :
        i \in DOMAIN processed_files}

\* C32: once F1 and F2 have each been processed, processed_files holds the
\* same rows whatever the interleaving of the workers was: the rows that the
\* concurrent processing of the two gives, one per remote key.
C32_RowsIndependentOfInterleaving ==
    BothIngestedOnce =>
        FileRowSet = {<<F1.telegram_file_id, compute_blake2b_from_path("A")>>,
                      <<F2.telegram_file_id, compute_blake2b_from_path("A")>>}

\* The two FileRefs processed while both had passed the post-download check
\* before either was recorded: one row each
ConcurrentOutcome ==
    /\ BothIngestedOnce
    /\ Cardinality(FileRowSet) = 2

\* The two FileRefs processed one after the other: one row, of the first
SequentialOutcome ==
    /\ BothIngestedOnce
    /\ Cardinality(FileRowSet) = 1

-----------------------------------------------------------------------------
(* C33 *)

\* The process_file call of job j is at its stage 5 or in its handler.
ExtractionUnfinished(j) ==
    \/ \E w \in ActiveWorkers :
          /\ task[w].job_id = j
          /\ task[w].pc \in {"persist_indicator", "fail_update"}
    \/ /\ hist[j].exit = "cancelled"
       /\ hist[j].at \in {"persist_indicator", "fail_update"}

\* C33: a job row is COMPLETED only when its call returned from a dedup
\* decision (stage 1 or stage 3), or when every indicator of its archive has
\* a row and its extraction and indicator persistence are neither pending
\* nor interrupted.
C33_CompletedMeansDecided ==
    \A i \in DOMAIN processing_jobs :
        processing_jobs[i].status = COMPLETED =>
            \/ /\ hist[processing_jobs[i].job_id].exit = "returned"
               /\ hist[processing_jobs[i].job_id].at \in {"dedup1_update", "dedup2_update"}
            \/ /\ IndicatorsPersisted(RemoteBytes(processing_jobs[i].telegram_file_id))
               /\ ~ExtractionUnfinished(processing_jobs[i].job_id)

-----------------------------------------------------------------------------
(* C34 *)

\* The awaits of log_job and of the update_job_status calls of the try block
JobWrites == {"log_job", "dedup1_update", "dedup2_update", "persist_update",
              "final_update"}

\* C34: every process_file call that has returned, none of whose log_job and
\* update_job_status calls raised, has its job row, and the row is COMPLETED
\* or FAILED: FAILED exactly when the call caught an exception.
C34_EndsCompletedOrFailed ==
    \A j \in DOMAIN hist :
        (hist[j].exit = "returned" /\ hist[j].caught \notin JobWrites)
        => /\ JobRows(j) # {}
           /\ \A i \in JobRows(j) :
                 /\ processing_jobs[i].status \in {COMPLETED, FAILED}
                 /\ processing_jobs[i].status = FAILED <=> hist[j].at = "fail_update"

\* C34 witness: calls have ended FAILED after a failed fetch, download or
\* hashing, or a rejected archive, and another has ended COMPLETED.
C34_Witness ==
    /\ \E j \in DOMAIN hist :
          /\ hist[j].exit = "returned"
          /\ hist[j].caught \in {"fetch", "download", "hash", "extract"}
          /\ \E i \in JobRows(j) : processing_jobs[i].status = FAILED
    /\ \E j \in DOMAIN hist :
          /\ hist[j].exit = "returned"
          /\ hist[j].at = "final_update"
          /\ \E i \in JobRows(j) : processing_jobs[i].status = COMPLETED

-----------------------------------------------------------------------------
(* C35 *)

\* The process_file calls that have ended, by return or by an exception
Ended == {j \in DOMAIN hist : hist[j].exit \in {"returned", "raised"}}

\* C35: while the process has been neither shut down nor restarted and no
\* call is in progress, the counters processed, failed and deduplicated add
\* up to the number of calls that have ended: each call counted once, in one
\* counter.
C35_OneCounterPerCall ==
    (Quiescent /\ Running /\ restarts = 0)
    => stats.jobs_processed + stats.jobs_failed + stats.files_deduplicated
          = Cardinality(Ended)

-----------------------------------------------------------------------------
(* C36 *)

\* The awaits of process_file before persist_file
BeforePersist == {"fetch", "download", "hash"}

\* Job j ended FAILED on an exception raised before persist_file.
FailedBeforePersist(j) ==
    /\ hist[j].exit = "returned"
    /\ hist[j].at = "fail_update"
    /\ hist[j].caught \in BeforePersist

\* Every earlier call on the remote key of worker w's file failed before
\* persist_file, and there was one.
OnlyFailedBefore(w) ==
    LET earlier == {i \in DOMAIN processing_jobs :
                       /\ processing_jobs[i].telegram_file_id = task[w].file.telegram_file_id
                       /\ processing_jobs[i].job_id # task[w].job_id}
    IN /\ earlier # {}
       /\ \A i \in earlier : FailedBeforePersist(processing_jobs[i].job_id)

\* C36: a call that is at the message fetch, the download or the hashing,
\* or in the handler after a failure there, changes neither processed_files
\* nor extracted_indicators nor the storage; so when every earlier call on a
\* remote key failed there, the key has no processed_files row and the next
\* call on it passes the pre-download check and fetches the message.
C36_EarlyFailureLeavesNoTrace ==
    [][\A w \in Workers :
        /\ ( /\ \/ task[w].pc \in BeforePersist
                \/ task[w].pc = "fail_update" /\ task[w].raised_at \in BeforePersist
             /\ task'[w] # task[w] )
           => UNCHANGED <<processed_files, extracted_indicators, store>>
        /\ ( /\ At(w, "dedup1")
             /\ OnlyFailedBefore(w) )
           => /\ FileRows(task[w].file.telegram_file_id) = {}
              /\ GoesOn(w) => ( /\ task'[w].pc = "fetch"
                               /\ stats' = stats )
      ]_vars

\* C36 witness: the first call on a remote key failed at the download and
\* the second call on it has gone through to its last update.
C36_Witness ==
    \E i, k \in DOMAIN processing_jobs :
        /\ processing_jobs[i].telegram_file_id = processing_jobs[k].telegram_file_id
        /\ processing_jobs[i].job_id < processing_jobs[k].job_id
        /\ FailedBeforePersist(processing_jobs[i].job_id)
        /\ hist[processing_jobs[i].job_id].caught = "download"
        /\ processing_jobs[i].status = FAILED
        /\ hist[processing_jobs[k].job_id].exit = "returned"
        /\ hist[processing_jobs[k].job_id].at = "final_update"
        /\ FileRows(processing_jobs[k].telegram_file_id) # {}

-----------------------------------------------------------------------------
(* C37 *)

\* The event loop runs every task that is ready: a cancelled worker reaches
\* its except clause, an awaited call of main() returns or raises, and the
\* timeout of wait_for fires.
SpecMainFair == SpecMain /\ WF_vars(NextMain)

\* Every worker task has ended, the pool is closed and the Telegram client
\* is disconnected.
TeardownComplete ==
    /\ AllStopped
    /\ ~teardown.pool
    /\ ~teardown.connected

\* C37: once main() has left its gather, by the interrupt, by cancellation
\* or by an exception of the listener, the teardown completes.
C37_TeardownCompletes ==
    (teardown.pc \notin {"off", "gather"}) ~> TeardownComplete

\* The listener raised; main() waited 30 seconds for workers nobody had
\* cancelled and left with TimeoutError, the pool open and the client
\* connected.
ListenerFailureSkipsTeardown ==
    /\ teardown.pc = "raised"
    /\ teardown.how = "Exception"
    /\ teardown.waited = TeardownTimeout
    /\ teardown.pool
    /\ teardown.connected
    /\ teardown.health

-----------------------------------------------------------------------------
(* StorageAdapter.persist_file, two calls at once for one fingerprint and   *)
(* file name                                                                 *)

\* The two process_file coroutines that call persist_file
Callers == {1, 2}

InitPersistPair ==
    /\ MainOff
    /\ extract = Off
    /\ safe_path = Off
    /\ putters = << >>
    /\ dropped = {}
    /\ download = Off
    /\ persist = Off
    /\ teardown = Off
    /\ \E base \in BasePaths, bytes \in Contents, name \in OriginalNames :
          call = [pc |-> [c \in Callers |-> "start"],
                  temp |-> [c \in Callers |-> bytes],
                  base |-> base,
                  wrote |-> bytes,
                  file_hash |-> compute_blake2b_from_path(bytes),
                  original_filename |-> name,
                  files |-> << >>,
                  writers |-> {},
                  result |-> [c \in Callers |-> << >>],
                  via |-> [c \in Callers |-> "none"]]

pairUnchanged ==
    /\ UNCHANGED mainVars
    /\ UNCHANGED <<extract, safe_path, putters, dropped, download, persist, teardown>>

PairTarget == final_path(call.base, call.file_hash, call.original_filename)

\* The branch taken when the target exists, without the unlink
PairTargetExistsKeepsTemp(c) ==
    [call EXCEPT !.pc[c] = "returned", !.result[c] = PairTarget, !.via[c] = "exists"]

\* The branch taken when the target exists: unlink the temp file and return
\* final_path.
PairTargetExists(c) ==
    [call EXCEPT !.pc[c] = "returned", !.temp[c] = Absent,
                 !.result[c] = PairTarget, !.via[c] = "exists"]

\* persist_file runs from its call to its first await: the temp file is
\* there, hash_dir is made, and final_path either exists or the rename is
\* handed to a thread.
PairCall(c) ==
    /\ call.pc[c] = "start"
    /\ call' = IF PairTarget \in DOMAIN call.files
               THEN PairTargetExists(c)
               ELSE [call EXCEPT !.pc[c] = "rename"]
    /\ pairUnchanged

\* temp_path.rename(final_path) in the thread: the directory entry now names
\* the temp file's inode, whatever was there before; a copy still writing
\* to the old inode no longer writes to the file at final_path.
PairRenameReturns(c) ==
    /\ call.pc[c] = "rename"
    /\ call' = [call EXCEPT !.pc[c] = "returned",
                            !.files = (PairTarget :> call.temp[c]) @@ @,
                            !.writers = {},
                            !.temp[c] = Absent,
                            !.result[c] = Resolve(PairTarget, << >>),
                            !.via[c] = "rename"]
    /\ pairUnchanged

\* the rename raises (another file system, or a platform whose rename does
\* not replace): shutil.copy2 is handed to a thread
PairRenameRaises(c) ==
    /\ call.pc[c] = "rename"
    /\ call' = [call EXCEPT !.pc[c] = "copy"]
    /\ pairUnchanged

\* shutil.copy2 opens final_path for writing: the file there is truncated.
PairCopyOpens(c) ==
    /\ call.pc[c] = "copy"
    /\ call' = [call EXCEPT !.pc[c] = "copying",
                            !.files = (PairTarget :> Partial) @@ @,
                            !.writers = @ \cup {c}]
    /\ pairUnchanged

\* shutil.copy2 has written every byte and returns; the temp file is
\* unlinked. The file at final_path is whole once no copy that truncated it
\* is still writing.
PairCopyReturns(c) ==
    /\ call.pc[c] = "copying"
    /\ call' = [call EXCEPT !.pc[c] = "returned",
                            !.files = IF c \in call.writers
                                      THEN (PairTarget :>
                                               IF call.writers = {c}
                                               THEN call.temp[c] ELSE Partial) @@ @
                                      ELSE @,
                            !.writers = @ \ {c},
                            !.temp[c] = Absent,
                            !.result[c] = Resolve(PairTarget, << >>),
                            !.via[c] = "copy"]
    /\ pairUnchanged

NextPersistPair ==
    \/ \E c \in Callers : PairCall(c)
    \/ \E c \in Callers : PairRenameReturns(c)
    \/ \E c \in Callers : PairRenameRaises(c)
    \/ \E c \in Callers : PairCopyOpens(c)
    \/ \E c \in Callers : PairCopyReturns(c)

SpecPersistPair == InitPersistPair /\ [][NextPersistPair]_vars

(* C38 *)

\* C38: no call of the two ends with an exception, and once both have
\* returned there is exactly one file, at the canonical path, with the bytes
\* of the temp files, both calls returned that path, and both temp files are
\* gone.
C38_ConcurrentPersistsAgree ==
        /\ \A c \in Callers : call.pc[c] # "raised"
        /\ (\A c \in Callers : call.pc[c] = "returned") =>
              /\ DOMAIN call.files =
                    {CanonicalPath(call.base, call.file_hash, call.original_filename)}
              /\ \A p \in DOMAIN call.files : call.files[p] = call.wrote
              /\ \A c \in Callers :
                    /\ call.temp[c] = Absent
                    /\ call.result[c] =
                          CanonicalPath(call.base, call.file_hash, call.original_filename)

\* C38 witness: both calls passed the existence check before either moved
\* its file, and both have returned after moving it.
C38_Witness ==
    /\ \A c \in Callers : call.pc[c] = "returned" /\ call.via[c] \in {"rename", "copy"}
    /\ \E c \in Callers : call.via[c] = "rename"

\* One call returned through the existence branch after the other's move.
OneCallFoundTheFile ==
    /\ \A c \in Callers : call.pc[c] = "returned"
    /\ \E c \in Callers : call.via[c] = "exists"

-----------------------------------------------------------------------------
(* C39 *)

\* The list scan_directory returned to worker w, before any of it has been
\* upserted
ScanReturned(w) ==
    /\ task[w].pc = "persist_indicator"
    /\ Len(task[w].indicators) = task[w].found

\* C39: the list one scan returns holds no indicator twice, so the number
\* added to indicators_found is the number of distinct indicators of the
\* archive.
C39_ScanEmitsEachIndicatorOnce ==
    \A w \in ActiveWorkers :
        ScanReturned(w) =>
            /\ \A i, k \in DOMAIN task[w].indicators :
                  i # k => task[w].indicators[i] # task[w].indicators[k]
            /\ task[w].found =
                  Cardinality({task[w].indicators[i] : i \in DOMAIN task[w].indicators})

====
